---------------------------- MODULE Spec2Model ----------------------------
(***************************************************************************)
(* A model of the puzzle layers and NFT mint orchestration of the wallet   *)
(* SDK: CLVM nodes and their tree hash, the closed-form (curried) hashes   *)
(* of the NFT layers, the singleton layer's parse/construct operations and *)
(* the bulk mint loop, the single mints of the MintNft trait, coin         *)
(* selection and the settlement spend.                                     *)
(*                                                                         *)
(* SHA-256 is modelled symbolically: a digest is the term <<"sha", m>>     *)
(* where m is the hashed byte string, so two digests are equal exactly     *)
(* when the hashed byte strings are equal (collision resistance).          *)
(***************************************************************************)
EXTENDS Integers, Sequences, FiniteSets, TLC

VARIABLES
    hq,          \* the last closed-form hash query and the two hashes it compared
    lq,          \* the last singleton-layer operation and its result
    inputs,      \* mint_nfts: the Vec<MintInput> being minted
    params,      \* mint_nfts: synthetic_key, did_id and did_inner_puzzle_hash
    mint_index,  \* mint_nfts: number of loop iterations completed
    coin_spends, \* mint_nfts: BulkMint.coin_spends accumulated so far
    outputs,     \* mint_nfts: BulkMint.outputs accumulated so far
    pc,          \* mint_nfts: "loop" while iterating, "done" after Ok(BulkMint);
                 \* "returned" after a single call of another function
    fq,          \* the last call of spend_nft, usize_to_bytes or a single NFT mint
    sel,         \* select_coins: its locals, position and result
    sctx         \* SettlementSpend::finish: the spend context and the call's result

mintVars == <<inputs, params, mint_index, coin_spends, outputs, pc>>

extVars == <<fq, sel, sctx>>

vars == <<hq, lq, inputs, params, mint_index, coin_spends, outputs, pc, fq, sel, sctx>>

---------------------------------------------------------------------------
(* Byte strings.  A byte string is a sequence of chunks; a chunk is either *)
(* <<"raw", s>> with s a non-empty sequence of bytes 0..255, or a 32-byte  *)
(* block: a named constant <<"b32", name>> or a digest <<"sha", m>>.       *)
(* Adjacent raw chunks are always merged, so equal byte strings are equal  *)
(* values.                                                                 *)

Raw(s) == IF s = <<>> THEN <<>> ELSE << <<"raw", s>> >>

B32(name) == << <<"b32", name>> >>

IsRaw(chunk) == chunk[1] = "raw"

\* a ++ b
Concat(a, b) ==
    IF a = <<>> THEN b
    ELSE IF b = <<>> THEN a
    ELSE IF IsRaw(a[Len(a)]) /\ IsRaw(b[1])
         THEN SubSeq(a, 1, Len(a) - 1)
              \o << <<"raw", a[Len(a)][2] \o b[1][2]>> >>
              \o Tail(b)
         ELSE a \o b

\* The digest of a byte string, itself a 32-byte string.
Sha256(m) == << <<"sha", m>> >>

\* The plain bytes of a byte string made of raw bytes only.
RawBytes(b) == IF b = <<>> THEN <<>> ELSE b[1][2]

IsRawString(b) == b = <<>> \/ (Len(b) = 1 /\ IsRaw(b[1]))

---------------------------------------------------------------------------
(* Integers as bytes.                                                      *)

RECURSIVE to_be_bytes(_, _)
\* amount.to_be_bytes() for an unsigned integer of `width` bytes
to_be_bytes(n, width) ==
    IF width = 0 THEN <<>>
    ELSE Append(to_be_bytes(n \div 256, width - 1), n % 256)

RECURSIVE trim_leading_zeros(_)
\* drops every leading zero byte
trim_leading_zeros(s) ==
    IF s # <<>> /\ s[1] = 0 THEN trim_leading_zeros(Tail(s)) ELSE s

\* the bytes hashed for a royalty percentage
u16_to_bytes(amount) == trim_leading_zeros(to_be_bytes(amount, 2))

\* variant: the eight big-endian bytes, not trimmed
usize_to_bytes_untrimmed(amount) == to_be_bytes(amount, 8)

\* the bytes hashed for a mint index or total
usize_to_bytes(amount) == trim_leading_zeros(to_be_bytes(amount, 8))

RECURSIVE Magnitude(_)
Magnitude(n) == IF n = 0 THEN <<>> ELSE Append(Magnitude(n \div 256), n % 256)

\* The atom a non-negative integer is allocated as: the shortest two's
\* complement big-endian form, which keeps one zero byte in front of a
\* magnitude whose top bit is set.
EncodeInt(n) ==
    LET m == Magnitude(n)
    IN  IF m # <<>> /\ m[1] >= 128 THEN <<0>> \o m ELSE m

RECURSIVE BytesValue(_)
BytesValue(s) ==
    IF s = <<>> THEN 0 ELSE 256 * BytesValue(SubSeq(s, 1, Len(s) - 1)) + s[Len(s)]

\* Decoding an atom as an unsigned integer: <<"ok", n>>, or <<"err">> for a
\* negative number or one too wide for the type.
DecodeUInt(s, width) ==
    IF s # <<>> /\ s[1] >= 128 THEN <<"err">>
    ELSE LET t == IF s # <<>> /\ s[1] = 0 THEN Tail(s) ELSE s
         IN  IF Len(t) > width THEN <<"err">> ELSE <<"ok", BytesValue(t)>>

---------------------------------------------------------------------------
(* CLVM nodes: <<"atom", bytes>>, <<"pair", left, right, hash>>, or the    *)
(* node of a compiled puzzle program <<"prog", name>>, known only through  *)
(* its tree hash, the program's PUZZLE_HASH constant.  A pair carries the  *)
(* tree hash of its subtree, computed from its children's hashes when the  *)
(* pair is allocated, so that hashing a node does not walk the tree again. *)

Atom(b) == <<"atom", b>>
Prog(name) == <<"prog", name>>
Nil == Atom(<<>>)
IntAtom(n) == Atom(Raw(EncodeInt(n)))

IsAtom(n) == n[1] = "atom"
IsPair(n) == n[1] = "pair"

SINGLETON_TOP_LAYER_PUZZLE_HASH == B32("singleton_top_layer")
SINGLETON_LAUNCHER_PUZZLE_HASH == B32("singleton_launcher")
NFT_STATE_LAYER_PUZZLE_HASH == B32("nft_state_layer")
NFT_OWNERSHIP_LAYER_PUZZLE_HASH == B32("nft_ownership_layer")
NFT_ROYALTY_TRANSFER_PUZZLE_HASH == B32("nft_royalty_transfer")
NFT_METADATA_UPDATER_PUZZLE_HASH == B32("nft_metadata_updater")
NFT_INTERMEDIATE_LAUNCHER_PUZZLE_HASH == B32("nft_intermediate_launcher")
STANDARD_PUZZLE_HASH == B32("p2_delegated_puzzle_or_hidden_puzzle")

\* hash(atom bytes) = H(0x01 ++ bytes)
tree_hash_atom(bytes) == Sha256(Concat(Raw(<<1>>), bytes))

\* hash(pair(left, right)) = H(0x02 ++ hash(left) ++ hash(right))
\* (both operands are 32-byte hashes, so no raw chunk is adjacent to 0x02's)
tree_hash_pair(first, rest) == Sha256(Raw(<<2>>) \o first \o rest)

\* ctx.tree_hash(node): the content hash of an allocated node
TreeHash(n) ==
    IF n[1] = "prog" THEN B32(n[2])
    ELSE IF IsAtom(n) THEN tree_hash_atom(n[2])
    ELSE n[4]

\* a.new_pair(l, r)
Pair(l, r) == <<"pair", l, r, tree_hash_pair(TreeHash(l), TreeHash(r))>>

RECURSIVE curry_args_hash(_)
curry_args_hash(arg_hashes) ==
    IF arg_hashes = <<>> THEN tree_hash_atom(Raw(<<1>>))
    ELSE LET op_q == tree_hash_atom(Raw(<<1>>))
             op_c == tree_hash_atom(Raw(<<4>>))
             nil == tree_hash_atom(<<>>)
             quoted_arg == tree_hash_pair(op_q, Head(arg_hashes))
             terminated_args ==
                 tree_hash_pair(curry_args_hash(Tail(arg_hashes)), nil)
         IN  tree_hash_pair(op_c, tree_hash_pair(quoted_arg, terminated_args))

\* curry_tree_hash(program_hash, arg_hashes): the tree hash of
\* (a (q . program) (c (q . arg_1) (c ... 1))) computed from hashes alone
curry_tree_hash(program_hash, arg_hashes) ==
    LET op_q == tree_hash_atom(Raw(<<1>>))
        op_a == tree_hash_atom(Raw(<<2>>))
        nil == tree_hash_atom(<<>>)
        quoted_program == tree_hash_pair(op_q, program_hash)
        terminated_args == tree_hash_pair(curry_args_hash(arg_hashes), nil)
    IN  tree_hash_pair(op_a, tree_hash_pair(quoted_program, terminated_args))

RECURSIVE ListNode(_)
\* clvm_list!(a, b, ...): a nil-terminated list of nodes
ListNode(items) ==
    IF items = <<>> THEN Nil ELSE Pair(Head(items), ListNode(Tail(items)))

RECURSIVE CurriedArgs(_)
\* the curried argument list (c (q . arg_1) (c (q . arg_2) ... 1))
CurriedArgs(args) ==
    IF args = <<>> THEN Atom(Raw(<<1>>))
    ELSE ListNode(<<Atom(Raw(<<4>>)),
                    Pair(Atom(Raw(<<1>>)), Head(args)),
                    CurriedArgs(Tail(args))>>)

\* CurriedProgram { program, args } allocated: (a (q . program) args)
CurriedProgram(program, args) ==
    ListNode(<<Atom(Raw(<<2>>)), Pair(Atom(Raw(<<1>>)), program), CurriedArgs(args)>>)

\* Option<T>: None, or Some(value)
None == <<"None">>
Some(value) == <<"Some", value>>

\* Option<Bytes32> as a node: None is the empty atom
OptionAtom(opt) == IF opt = None THEN Nil ELSE Atom(opt[2])

\* SingletonStruct allocated: (mod_hash . (launcher_id . launcher_puzzle_hash))
SingletonStructNode(s) ==
    Pair(Atom(s.mod_hash), Pair(Atom(s.launcher_id), Atom(s.launcher_puzzle_hash)))

SingletonStruct(launcher_id) ==
    [mod_hash |-> SINGLETON_TOP_LAYER_PUZZLE_HASH,
     launcher_id |-> launcher_id,
     launcher_puzzle_hash |-> SINGLETON_LAUNCHER_PUZZLE_HASH]

---------------------------------------------------------------------------
(* The closed-form hashes of the NFT layers.                               *)

nft_state_layer_hash(metadata_hash, metadata_updater_hash, inner_puzzle_hash) ==
    LET mod_hash == tree_hash_atom(NFT_STATE_LAYER_PUZZLE_HASH)
        updater == tree_hash_atom(metadata_updater_hash)
    IN  curry_tree_hash(NFT_STATE_LAYER_PUZZLE_HASH,
                        <<mod_hash, metadata_hash, updater, inner_puzzle_hash>>)

\* Variant of nft_ownership_layer_hash that hashes an absent owner as the
\* one-byte atom 0x00 instead of the empty atom.
nft_ownership_layer_hash_zero_owner(current_owner, transfer_program_hash, inner_puzzle_hash) ==
    LET mod_hash == tree_hash_atom(NFT_OWNERSHIP_LAYER_PUZZLE_HASH)
        current_owner_hash ==
            IF current_owner = None THEN tree_hash_atom(Raw(<<0>>))
            ELSE tree_hash_atom(current_owner[2])
    IN  curry_tree_hash(NFT_OWNERSHIP_LAYER_PUZZLE_HASH,
                        <<mod_hash, current_owner_hash, transfer_program_hash,
                          inner_puzzle_hash>>)

nft_ownership_layer_hash(current_owner, transfer_program_hash, inner_puzzle_hash) ==
    LET mod_hash == tree_hash_atom(NFT_OWNERSHIP_LAYER_PUZZLE_HASH)
        current_owner_hash ==
            IF current_owner = None THEN tree_hash_atom(<<>>)
            ELSE tree_hash_atom(current_owner[2])
    IN  curry_tree_hash(NFT_OWNERSHIP_LAYER_PUZZLE_HASH,
                        <<mod_hash, current_owner_hash, transfer_program_hash,
                          inner_puzzle_hash>>)

nft_royalty_transfer_hash(launcher_id, royalty_puzzle_hash, royalty_percentage) ==
    LET royalty_hash == tree_hash_atom(royalty_puzzle_hash)
        royalty_percentage_hash == tree_hash_atom(Raw(u16_to_bytes(royalty_percentage)))
        singleton_hash == tree_hash_atom(SINGLETON_TOP_LAYER_PUZZLE_HASH)
        launcher_id_hash == tree_hash_atom(launcher_id)
        launcher_puzzle_hash == tree_hash_atom(SINGLETON_LAUNCHER_PUZZLE_HASH)
        pair == tree_hash_pair(launcher_id_hash, launcher_puzzle_hash)
        singleton_struct_hash == tree_hash_pair(singleton_hash, pair)
    IN  curry_tree_hash(NFT_ROYALTY_TRANSFER_PUZZLE_HASH,
                        <<singleton_struct_hash, royalty_hash, royalty_percentage_hash>>)

\* The fully constructed puzzles the closed forms stand for.
NftStateLayerPuzzle(metadata, metadata_updater_puzzle_hash, inner_puzzle) ==
    CurriedProgram(Prog("nft_state_layer"),
                   <<Atom(NFT_STATE_LAYER_PUZZLE_HASH), metadata,
                     Atom(metadata_updater_puzzle_hash), inner_puzzle>>)

NftOwnershipLayerPuzzle(current_owner, transfer_program, inner_puzzle) ==
    CurriedProgram(Prog("nft_ownership_layer"),
                   <<Atom(NFT_OWNERSHIP_LAYER_PUZZLE_HASH), OptionAtom(current_owner),
                     transfer_program, inner_puzzle>>)

NftRoyaltyTransferPuzzle(singleton_struct, royalty_puzzle_hash, trade_price_percentage) ==
    CurriedProgram(Prog("nft_royalty_transfer"),
                   <<SingletonStructNode(singleton_struct), Atom(royalty_puzzle_hash),
                     IntAtom(trade_price_percentage)>>)

---------------------------------------------------------------------------
(* Results and the Puzzle view of a node.                                  *)

Ok(value) == <<"Ok", value>>
Err(error) == <<"Err", error>>
IsErr(result) == result[1] = "Err"

IsBytes32(b) == Len(b) = 1 /\ b[1][1] \in {"b32", "sha"}
IsPublicKey(b) == Len(b) = 1 /\ b[1][1] = "b48"
PublicKey(name) == << <<"b48", name>> >>

\* CurriedProgram::<NodePtr, NodePtr>::from_clvm: the node must be
\* (a (q . program) args); yields <<"Curried", program, args>> or <<"Raw">>
CurriedFromClvm(n) ==
    IF /\ IsPair(n)
       /\ n[2] = Atom(Raw(<<2>>))
       /\ IsPair(n[3])
       /\ IsPair(n[3][2])
       /\ n[3][2][2] = Atom(Raw(<<1>>))
       /\ IsPair(n[3][3])
       /\ n[3][3][3] = Nil
    THEN <<"Curried", n[3][2][3], n[3][3][2]>>
    ELSE <<"Raw">>

\* Puzzle::parse: a curried puzzle carries the tree hash of its program
PuzzleParse(n) ==
    LET c == CurriedFromClvm(n)
    IN  IF c[1] = "Curried"
        THEN [kind |-> "Curried", mod_hash |-> TreeHash(c[2]), args |-> c[3], ptr |-> n]
        ELSE [kind |-> "Raw", ptr |-> n]

\* One step of decoding a curried argument list: (c (q . first) rest)
IsCurriedCons(n) ==
    /\ IsPair(n)
    /\ n[2] = Atom(Raw(<<4>>))
    /\ IsPair(n[3])
    /\ IsPair(n[3][2])
    /\ n[3][2][2] = Atom(Raw(<<1>>))
    /\ IsPair(n[3][3])
    /\ n[3][3][3] = Nil
CurriedFirst(n) == n[3][2][3]
CurriedRest(n) == n[3][3][2]

\* SingletonStruct::from_clvm: (Bytes32 . (Bytes32 . Bytes32))
IsSingletonStructNode(n) ==
    /\ IsPair(n) /\ IsAtom(n[2]) /\ IsBytes32(n[2][2])
    /\ IsPair(n[3])
    /\ IsAtom(n[3][2]) /\ IsBytes32(n[3][2][2])
    /\ IsAtom(n[3][3]) /\ IsBytes32(n[3][3][2])

\* SingletonArgs::<NodePtr>::from_clvm(allocator, puzzle.args)
SingletonArgsFromClvm(args) ==
    IF /\ IsCurriedCons(args)
       /\ IsCurriedCons(CurriedRest(args))
       /\ CurriedRest(CurriedRest(args)) = Atom(Raw(<<1>>))
       /\ IsSingletonStructNode(CurriedFirst(args))
    THEN LET st == CurriedFirst(args)
         IN  Ok([singleton_struct |->
                    [mod_hash |-> st[2][2],
                     launcher_id |-> st[3][2][2],
                     launcher_puzzle_hash |-> st[3][3][2]],
                 inner_puzzle |-> CurriedFirst(CurriedRest(args))])
    ELSE Err("FromClvm")

---------------------------------------------------------------------------
(* The inner layer I of SingletonLayer<I>: a terminal pay-to-key layer     *)
(* holding a synthetic public key.                                         *)

InnerConstructPuzzle(inner) ==
    CurriedProgram(Prog("p2_delegated_puzzle_or_hidden_puzzle"),
                   <<Atom(inner.synthetic_key)>>)

InnerParsePuzzle(puzzle) ==
    IF puzzle.kind # "Curried" THEN Ok(None)
    ELSE IF puzzle.mod_hash # STANDARD_PUZZLE_HASH THEN Ok(None)
    ELSE IF /\ IsCurriedCons(puzzle.args)
            /\ CurriedRest(puzzle.args) = Atom(Raw(<<1>>))
            /\ IsAtom(CurriedFirst(puzzle.args))
            /\ IsPublicKey(CurriedFirst(puzzle.args)[2])
         THEN Ok(Some([synthetic_key |-> CurriedFirst(puzzle.args)[2]]))
         ELSE Err("FromClvm")

InnerTreeHash(inner) ==
    curry_tree_hash(STANDARD_PUZZLE_HASH, <<tree_hash_atom(inner.synthetic_key)>>)

\* inner solution: (original_public_key delegated_puzzle solution)
InnerConstructSolution(solution) ==
    ListNode(<<IF solution.original_public_key = None THEN Nil
               ELSE Atom(solution.original_public_key[2]),
               solution.delegated_puzzle, solution.solution>>)

InnerParseSolution(n) ==
    IF /\ IsPair(n) /\ IsAtom(n[2]) /\ (n[2] = Nil \/ IsPublicKey(n[2][2]))
       /\ IsPair(n[3]) /\ IsPair(n[3][3]) /\ n[3][3][3] = Nil
    THEN Ok([original_public_key |-> IF n[2] = Nil THEN None ELSE Some(n[2][2]),
             delegated_puzzle |-> n[3][2],
             solution |-> n[3][3][2]])
    ELSE Err("FromClvm")

---------------------------------------------------------------------------
(* SingletonLayer<I>.                                                      *)

\* Variant of parse_puzzle without the check of the singleton struct.
parse_puzzle_unchecked_struct(puzzle) ==
    IF puzzle.kind # "Curried" THEN Ok(None)
    ELSE IF puzzle.mod_hash # SINGLETON_TOP_LAYER_PUZZLE_HASH THEN Ok(None)
    ELSE LET args == SingletonArgsFromClvm(puzzle.args)
         IN  IF IsErr(args) THEN args
             ELSE LET inner == InnerParsePuzzle(PuzzleParse(args[2].inner_puzzle))
                  IN  IF IsErr(inner) THEN inner
                      ELSE IF inner[2] = None THEN Ok(None)
                      ELSE Ok(Some([singleton_struct |-> args[2].singleton_struct,
                                    inner_puzzle |-> inner[2][2]]))

\* Variant of parse_puzzle that reports a puzzle the inner layer does not
\* recognise, or a program other than the singleton top layer, as an error.
parse_puzzle_miss_is_error(puzzle) ==
    IF puzzle.kind # "Curried" THEN Ok(None)
    ELSE IF puzzle.mod_hash # SINGLETON_TOP_LAYER_PUZZLE_HASH
         THEN Err("InvalidSingletonStruct")
    ELSE LET args == SingletonArgsFromClvm(puzzle.args)
         IN  IF IsErr(args) THEN args
             ELSE IF \/ args[2].singleton_struct.mod_hash
                            # SINGLETON_TOP_LAYER_PUZZLE_HASH
                     \/ args[2].singleton_struct.launcher_puzzle_hash
                            # SINGLETON_LAUNCHER_PUZZLE_HASH
                  THEN Err("InvalidSingletonStruct")
                  ELSE LET inner == InnerParsePuzzle(PuzzleParse(args[2].inner_puzzle))
                       IN  IF IsErr(inner) THEN inner
                           ELSE IF inner[2] = None THEN Err("FromClvm")
                           ELSE Ok(Some([singleton_struct |-> args[2].singleton_struct,
                                         inner_puzzle |-> inner[2][2]]))

\* SingletonLayer::parse_puzzle
parse_puzzle(puzzle) ==
    IF puzzle.kind # "Curried" THEN Ok(None)
    ELSE IF puzzle.mod_hash # SINGLETON_TOP_LAYER_PUZZLE_HASH THEN Ok(None)
    ELSE LET args == SingletonArgsFromClvm(puzzle.args)
         IN  IF IsErr(args) THEN args
             ELSE IF \/ args[2].singleton_struct.mod_hash
                            # SINGLETON_TOP_LAYER_PUZZLE_HASH
                     \/ args[2].singleton_struct.launcher_puzzle_hash
                            # SINGLETON_LAUNCHER_PUZZLE_HASH
                  THEN Err("InvalidSingletonStruct")
                  ELSE LET inner == InnerParsePuzzle(PuzzleParse(args[2].inner_puzzle))
                       IN  IF IsErr(inner) THEN inner
                           ELSE IF inner[2] = None THEN Ok(None)
                           ELSE Ok(Some([singleton_struct |-> args[2].singleton_struct,
                                         inner_puzzle |-> inner[2][2]]))

\* Variant of construct_puzzle that curries the arguments in the opposite
\* order.
construct_puzzle_swapped_args(layer) ==
    CurriedProgram(Prog("singleton_top_layer"),
                   <<InnerConstructPuzzle(layer.inner_puzzle),
                     SingletonStructNode(layer.singleton_struct)>>)

\* SingletonLayer::construct_puzzle
construct_puzzle(layer) ==
    CurriedProgram(Prog("singleton_top_layer"),
                   <<SingletonStructNode(layer.singleton_struct),
                     InnerConstructPuzzle(layer.inner_puzzle)>>)

\* impl ToTreeHash for SingletonLayer: the tree hash of the SingletonArgs
\* value, whose inner puzzle is given by its hash.  SingletonArgs encodes as
\* the curried argument list.
tree_hash(layer) ==
    LET inner_puzzle == InnerTreeHash(layer.inner_puzzle)
    IN  curry_args_hash(<<TreeHash(SingletonStructNode(layer.singleton_struct)),
                          inner_puzzle>>)

\* Proof allocated: Eve is (parent_coin_info amount), Lineage is
\* (parent_coin_info inner_puzzle_hash amount)
ProofNode(proof) ==
    IF proof.kind = "Eve"
    THEN ListNode(<<Atom(proof.parent_coin_info), IntAtom(proof.amount)>>)
    ELSE ListNode(<<Atom(proof.parent_coin_info), Atom(proof.inner_puzzle_hash),
                    IntAtom(proof.amount)>>)

IsU64Atom(n) ==
    IsAtom(n) /\ IsRawString(n[2]) /\ DecodeUInt(RawBytes(n[2]), 8)[1] = "ok"
U64Of(n) == DecodeUInt(RawBytes(n[2]), 8)[2]

\* Proof::from_clvm: the Lineage shape is tried first, then the Eve shape
ProofFromClvm(n) ==
    IF /\ IsPair(n) /\ IsAtom(n[2]) /\ IsBytes32(n[2][2])
       /\ IsPair(n[3]) /\ IsAtom(n[3][2]) /\ IsBytes32(n[3][2][2])
       /\ IsPair(n[3][3]) /\ IsU64Atom(n[3][3][2])
       /\ n[3][3][3] = Nil
    THEN Ok([kind |-> "Lineage", parent_coin_info |-> n[2][2],
             inner_puzzle_hash |-> n[3][2][2], amount |-> U64Of(n[3][3][2])])
    ELSE IF /\ IsPair(n) /\ IsAtom(n[2]) /\ IsBytes32(n[2][2])
            /\ IsPair(n[3]) /\ IsU64Atom(n[3][2])
            /\ n[3][3] = Nil
    THEN Ok([kind |-> "Eve", parent_coin_info |-> n[2][2],
             amount |-> U64Of(n[3][2])])
    ELSE Err("FromClvm")

\* SingletonSolution allocated: (lineage_proof amount inner_solution)
SingletonSolutionNode(lineage_proof, amount, inner_solution) ==
    ListNode(<<ProofNode(lineage_proof), IntAtom(amount), inner_solution>>)

\* SingletonSolution::<NodePtr>::from_clvm
SingletonSolutionFromClvm(n) ==
    IF /\ IsPair(n) /\ ~IsErr(ProofFromClvm(n[2]))
       /\ IsPair(n[3]) /\ IsU64Atom(n[3][2])
       /\ IsPair(n[3][3]) /\ n[3][3][3] = Nil
    THEN Ok([lineage_proof |-> ProofFromClvm(n[2])[2],
             amount |-> U64Of(n[3][2]),
             inner_solution |-> n[3][3][2]])
    ELSE Err("FromClvm")

\* SingletonLayer::parse_solution
parse_solution(solution) ==
    LET sol == SingletonSolutionFromClvm(solution)
    IN  IF IsErr(sol) THEN sol
        ELSE LET inner_solution == InnerParseSolution(sol[2].inner_solution)
             IN  IF IsErr(inner_solution) THEN inner_solution
                 ELSE Ok([lineage_proof |-> sol[2].lineage_proof,
                          amount |-> sol[2].amount,
                          inner_solution |-> inner_solution[2]])

\* Variant of construct_solution that always writes the amount 1.
construct_solution_unit_amount(solution) ==
    LET inner_solution == InnerConstructSolution(solution.inner_solution)
    IN  SingletonSolutionNode(solution.lineage_proof, 1, inner_solution)

\* SingletonLayer::construct_solution
construct_solution(solution) ==
    LET inner_solution == InnerConstructSolution(solution.inner_solution)
    IN  SingletonSolutionNode(solution.lineage_proof, solution.amount, inner_solution)

---------------------------------------------------------------------------
(* Coins, coin spends and conditions.                                      *)

Coin(parent_coin_info, puzzle_hash, amount) ==
    [parent_coin_info |-> parent_coin_info, puzzle_hash |-> puzzle_hash,
     amount |-> amount]

\* coin.coin_id(): H(parent_coin_info ++ puzzle_hash ++ amount as an atom)
CoinId(coin) ==
    Sha256(Concat(coin.parent_coin_info,
                  Concat(coin.puzzle_hash, Raw(EncodeInt(coin.amount)))))

\* ctx.serialize(node): the program bytes of a node
Serialize(node) == <<"program", node>>
Deserialize(program) == program[2]

CoinSpend(coin, puzzle_reveal, solution) ==
    [coin |-> coin, puzzle_reveal |-> puzzle_reveal, solution |-> solution]

Opcode(byte) == Atom(Raw(<<byte>>))

CreateCoinWithoutMemos(puzzle_hash, amount) ==
    ListNode(<<Opcode(51), Atom(puzzle_hash), IntAtom(amount)>>)

CreateCoinWithMemos(puzzle_hash, amount, memos) ==
    ListNode(<<Opcode(51), Atom(puzzle_hash), IntAtom(amount),
               ListNode([i \in 1..Len(memos) |-> Atom(memos[i])])>>)

AssertCoinAnnouncement(announcement_id) ==
    ListNode(<<Opcode(61), Atom(announcement_id)>>)
CreatePuzzleAnnouncement(message) == ListNode(<<Opcode(62), Atom(message)>>)
AssertPuzzleAnnouncement(announcement_id) ==
    ListNode(<<Opcode(63), Atom(announcement_id)>>)

\* NewNftOwner is condition -10 (the byte 0xf6)
NewNftOwner(new_owner, trade_prices_list, new_did_inner_hash) ==
    ListNode(<<Opcode(246), OptionAtom(new_owner), ListNode(trade_prices_list),
               OptionAtom(new_did_inner_hash)>>)

---------------------------------------------------------------------------
(* spend_nft and mint_nfts.                                                *)

\* spend_nft(ctx, coin, puzzle_reveal, proof, conditions)
\* Variant of spend_nft that leaves out the ownership layer's solution.
spend_nft_without_ownership_layer(coin, puzzle_reveal, proof, conditions) ==
    LET p2_solution == ListNode(<<Nil, Pair(Atom(Raw(<<1>>)), conditions), Nil>>)
        state_layer_solution == ListNode(<<p2_solution>>)
    IN  CoinSpend(coin, puzzle_reveal,
                  Serialize(SingletonSolutionNode(proof, coin.amount, state_layer_solution)))

spend_nft(coin, puzzle_reveal, proof, conditions) ==
    LET p2_solution == ListNode(<<Nil, Pair(Atom(Raw(<<1>>)), conditions), Nil>>)
        ownership_layer_solution == ListNode(<<p2_solution>>)
        state_layer_solution == ListNode(<<ownership_layer_solution>>)
        solution ==
            Serialize(SingletonSolutionNode(proof, coin.amount, state_layer_solution))
    IN  CoinSpend(coin, puzzle_reveal, solution)

\* spend_new_intermediate_launcher(ctx, parent_coin_id, index, total)
\* Variant of the intermediate launcher that curries the first index for
\* every item.
spend_new_intermediate_launcher_first_index(parent_coin_id, index, total) ==
    LET puzzle == CurriedProgram(Prog("nft_intermediate_launcher"),
                                 <<Atom(SINGLETON_LAUNCHER_PUZZLE_HASH),
                                   IntAtom(0), IntAtom(total)>>)
    IN  CoinSpend(Coin(parent_coin_id, TreeHash(puzzle), 0), Serialize(puzzle),
                  Serialize(Nil))

spend_new_intermediate_launcher(parent_coin_id, index, total) ==
    LET puzzle == CurriedProgram(Prog("nft_intermediate_launcher"),
                                 <<Atom(SINGLETON_LAUNCHER_PUZZLE_HASH),
                                   IntAtom(index), IntAtom(total)>>)
        puzzle_reveal == Serialize(puzzle)
        solution == Serialize(Nil)
        puzzle_hash == TreeHash(puzzle)
    IN  CoinSpend(Coin(parent_coin_id, puzzle_hash, 0), puzzle_reveal, solution)

\* Variant of the index announcement that hashes the total before the index.
IndexAnnouncementId_total_first(intermediate_id, mint_index_, mint_total) ==
    LET index_message ==
            Sha256(Concat(Raw(usize_to_bytes(mint_total)),
                          Raw(usize_to_bytes(mint_index_))))
    IN  Sha256(Concat(intermediate_id, index_message))

\* the announcement the funding coin asserts for the intermediate launcher
IndexAnnouncementId(intermediate_id, mint_index_, mint_total) ==
    LET index_message ==
            Sha256(Concat(Raw(usize_to_bytes(mint_index_)),
                          Raw(usize_to_bytes(mint_total))))
    IN  Sha256(Concat(intermediate_id, index_message))

\* Variant of the launcher coin whose parent is the launcher puzzle hash.
LauncherCoin_wrong_parent(intermediate_id, amount) ==
    Coin(SINGLETON_LAUNCHER_PUZZLE_HASH, intermediate_id, amount)

\* the launcher coin of an item
LauncherCoin(intermediate_id, amount) ==
    Coin(intermediate_id, SINGLETON_LAUNCHER_PUZZLE_HASH, amount)

\* the eve NFT puzzle of an item
EvePuzzle(input, launcher_id, p2) ==
    LET singleton_struct == SingletonStruct(launcher_id)
        royalty_transfer ==
            NftRoyaltyTransferPuzzle(singleton_struct, input.royalty_puzzle_hash,
                                     input.royalty_percentage)
        ownership_layer == NftOwnershipLayerPuzzle(None, royalty_transfer, p2)
        state_layer ==
            NftStateLayerPuzzle(input.metadata, NFT_METADATA_UPDATER_PUZZLE_HASH,
                                ownership_layer)
    IN  CurriedProgram(Prog("singleton_top_layer"),
                       <<SingletonStructNode(singleton_struct), state_layer>>)

\* LauncherSolution allocated: (singleton_puzzle_hash amount key_value_list)
LauncherSolution(singleton_puzzle_hash, amount) ==
    ListNode(<<Atom(singleton_puzzle_hash), IntAtom(amount), Nil>>)

\* the announcement the funding coin asserts for the eve NFT's new owner
NewOwnerAnnouncementId(eve_puzzle_hash, did_id, did_inner_puzzle_hash) ==
    LET new_nft_owner_args == ListNode(<<Atom(did_id), Nil, Atom(did_inner_puzzle_hash)>>)
    IN  Sha256(Concat(eve_puzzle_hash,
                      Concat(Raw(<<173, 76>>), TreeHash(new_nft_owner_args))))

\* One iteration of the loop of mint_nfts: the three coin spends and the
\* output of the item at position mint_index_ of a batch of mint_total.
MintItem(input, mint_index_, mint_total, prm) ==
    LET p2 == CurriedProgram(Prog("p2_delegated_puzzle_or_hidden_puzzle"),
                             <<Atom(prm.synthetic_key)>>)
        intermediate_spend ==
            spend_new_intermediate_launcher(input.parent_coin_id, mint_index_, mint_total)
        intermediate_id == CoinId(intermediate_spend.coin)
        launcher_coin == LauncherCoin(intermediate_id, input.amount)
        launcher_id == CoinId(launcher_coin)
        singleton == EvePuzzle(input, launcher_id, p2)
        eve_puzzle_hash == TreeHash(singleton)
        eve_message == ListNode(<<Atom(eve_puzzle_hash), IntAtom(input.amount), Nil>>)
        eve_message_hash == TreeHash(eve_message)
        launcher_spend ==
            CoinSpend(launcher_coin, Serialize(Prog("singleton_launcher")),
                      Serialize(LauncherSolution(eve_puzzle_hash, input.amount)))
        eve_coin == Coin(launcher_id, eve_puzzle_hash, input.amount)
        eve_proof == [kind |-> "Eve", parent_coin_info |-> intermediate_id,
                      amount |-> input.amount]
        eve_coin_spend ==
            spend_nft(eve_coin, Serialize(singleton), eve_proof,
                      ListNode(<<CreateCoinWithMemos(input.owner_puzzle_hash, input.amount,
                                                     <<input.owner_puzzle_hash>>),
                                 NewNftOwner(Some(prm.did_id), <<>>,
                                             Some(prm.did_inner_puzzle_hash))>>))
        parent_conditions ==
            <<CreateCoinWithoutMemos(intermediate_spend.coin.puzzle_hash,
                                     intermediate_spend.coin.amount),
              AssertCoinAnnouncement(
                  IndexAnnouncementId(intermediate_id, mint_index_, mint_total)),
              CreatePuzzleAnnouncement(launcher_id),
              AssertCoinAnnouncement(Sha256(Concat(launcher_id, eve_message_hash))),
              AssertPuzzleAnnouncement(
                  NewOwnerAnnouncementId(eve_puzzle_hash, prm.did_id,
                                         prm.did_inner_puzzle_hash))>>
    IN  [coin_spends |-> <<intermediate_spend, launcher_spend, eve_coin_spend>>,
         output |-> [parent_conditions |-> parent_conditions,
                     launcher_id |-> launcher_id]]

---------------------------------------------------------------------------
(* Hash equivalence: each step computes a closed-form hash and, as the     *)
(* repository's tests do, allocates the full curried puzzle and hashes it. *)

Hashes == {B32("h1"), B32("h2"), NFT_METADATA_UPDATER_PUZZLE_HASH}

Owners == {None, Some(B32("did1")), Some(B32("did2"))}

\* nodes used as metadata, inner puzzles and transfer programs
SampleNodes ==
    {ListNode(<<IntAtom(1), IntAtom(2), IntAtom(3)>>),
     ListNode(<<IntAtom(4), IntAtom(5), IntAtom(6)>>),
     Nil,
     Pair(Atom(B32("h1")), IntAtom(200))}

\* royalty percentages (u16), around every byte and sign boundary
RoyaltyPercentages == {0, 1, 100, 127, 128, 255, 256, 300, 32767, 32768, 65535}

NoQuery == [fn |-> "none"]

NoParams == [none |-> TRUE]

\* test_state_layer_hash, for any metadata, updater hash and inner puzzle
StateLayerHash ==
    /\ hq = NoQuery
    /\ \E metadata \in SampleNodes, updater \in Hashes, inner_puzzle \in SampleNodes :
          hq' = [fn |-> "nft_state_layer_hash",
                 args |-> <<metadata, updater, inner_puzzle>>,
                 puzzle_hash |->
                     nft_state_layer_hash(TreeHash(metadata), updater,
                                          TreeHash(inner_puzzle)),
                 allocated_puzzle_hash |->
                     TreeHash(NftStateLayerPuzzle(metadata, updater, inner_puzzle))]
    /\ UNCHANGED <<lq, mintVars, extVars>>

\* test_ownership_layer_hash, second assertion, for any owner, transfer
\* program and inner puzzle
OwnershipLayerHash ==
    /\ hq = NoQuery
    /\ \E current_owner \in Owners, transfer_program \in SampleNodes,
          inner_puzzle \in SampleNodes :
          hq' = [fn |-> "nft_ownership_layer_hash",
                 args |-> <<current_owner, transfer_program, inner_puzzle>>,
                 puzzle_hash |->
                     nft_ownership_layer_hash(current_owner, TreeHash(transfer_program),
                                              TreeHash(inner_puzzle)),
                 allocated_puzzle_hash |->
                     TreeHash(NftOwnershipLayerPuzzle(current_owner, transfer_program,
                                                      inner_puzzle))]
    /\ UNCHANGED <<lq, mintVars, extVars>>

\* test_ownership_layer_hash, first assertion, for any launcher id, royalty
\* puzzle hash and percentage
RoyaltyTransferHash ==
    /\ hq = NoQuery
    /\ \E launcher_id \in Hashes, royalty_puzzle_hash \in Hashes,
          royalty_percentage \in RoyaltyPercentages :
          hq' = [fn |-> "nft_royalty_transfer_hash",
                 args |-> <<launcher_id, royalty_puzzle_hash, royalty_percentage>>,
                 puzzle_hash |->
                     nft_royalty_transfer_hash(launcher_id, royalty_puzzle_hash,
                                               royalty_percentage),
                 allocated_puzzle_hash |->
                     TreeHash(NftRoyaltyTransferPuzzle(SingletonStruct(launcher_id),
                                                       royalty_puzzle_hash,
                                                       royalty_percentage))]
    /\ UNCHANGED <<lq, mintVars, extVars>>

---------------------------------------------------------------------------
(* Singleton layer operations on sample values and on-chain nodes.         *)

NoValue == <<"none">>
NoLayerQuery == [op |-> "none"]

SingletonStructs ==
    [mod_hash : {SINGLETON_TOP_LAYER_PUZZLE_HASH, B32("h1")},
     launcher_id : {B32("l1"), B32("l2")},
     launcher_puzzle_hash : {SINGLETON_LAUNCHER_PUZZLE_HASH, B32("h2")}]

IsCanonical(singleton_struct) ==
    /\ singleton_struct.mod_hash = SINGLETON_TOP_LAYER_PUZZLE_HASH
    /\ singleton_struct.launcher_puzzle_hash = SINGLETON_LAUNCHER_PUZZLE_HASH

InnerLayers == [synthetic_key : {PublicKey("k1"), PublicKey("k2")}]

LayerValues == [singleton_struct : SingletonStructs, inner_puzzle : InnerLayers]

\* inner puzzles found on chain: recognised by the inner layer, not
\* recognised (not curried, or another program), or recognised and malformed
InnerNodes ==
    {InnerConstructPuzzle(i) : i \in InnerLayers}
    \cup {Nil,
          ListNode(<<IntAtom(1), IntAtom(2), IntAtom(3)>>),
          CurriedProgram(Prog("nft_state_layer"), <<Nil>>),
          CurriedProgram(Prog("p2_delegated_puzzle_or_hidden_puzzle"),
                         <<Atom(B32("h1"))>>),
          CurriedProgram(Prog("p2_delegated_puzzle_or_hidden_puzzle"), <<>>)}

SingletonPuzzleNode(singleton_struct, inner_node) ==
    CurriedProgram(Prog("singleton_top_layer"),
                   <<SingletonStructNode(singleton_struct), inner_node>>)

OnChainPuzzles ==
    {SingletonPuzzleNode(st, n) : st \in SingletonStructs, n \in InnerNodes}
    \cup InnerNodes
    \cup {CurriedProgram(Prog("singleton_top_layer"), <<Nil, Nil>>),
          CurriedProgram(Prog("singleton_top_layer"),
                         <<SingletonStructNode(SingletonStruct(B32("l1")))>>),
          CurriedProgram(Prog("singleton_launcher"),
                         <<SingletonStructNode(SingletonStruct(B32("l1"))),
                           InnerConstructPuzzle([synthetic_key |-> PublicKey("k1")])>>)}

Parents == {B32("p1"), B32("p2")}

\* u64 amounts around the byte and sign boundaries of the atom encoding
Amounts == {0, 1, 127, 128, 255, 256, 65535, 2147483647}

Proofs ==
    [kind : {"Eve"}, parent_coin_info : Parents, amount : {0, 1, 128}]
    \cup [kind : {"Lineage"}, parent_coin_info : Parents,
          inner_puzzle_hash : {B32("h1")}, amount : {1, 128}]

InnerSolutions ==
    [original_public_key : {None, Some(PublicKey("k1"))},
     delegated_puzzle : {Pair(Atom(Raw(<<1>>)), Nil)},
     solution : {Nil}]

Solutions == [lineage_proof : Proofs, amount : Amounts, inner_solution : InnerSolutions]

OnChainSolutions ==
    {Nil,
     ListNode(<<Nil, IntAtom(1), Nil>>),
     ListNode(<<ProofNode([kind |-> "Eve", parent_coin_info |-> B32("p1"), amount |-> 1]),
                Atom(B32("h1")),
                InnerConstructSolution(CHOOSE x \in InnerSolutions : TRUE)>>),
     ListNode(<<ProofNode([kind |-> "Eve", parent_coin_info |-> B32("p1"), amount |-> 1]),
                IntAtom(1), Nil>>)}

\* layer.construct_puzzle(ctx) together with layer.tree_hash()
ConstructPuzzle ==
    /\ lq = NoLayerQuery
    /\ \E layer \in LayerValues :
          lq' = [op |-> "construct_puzzle", from |-> "value", value |-> layer,
                 node |-> construct_puzzle(layer), hash |-> tree_hash(layer),
                 result |-> NoValue]
    /\ UNCHANGED <<hq, mintVars, extVars>>

\* SingletonLayer::parse_puzzle on a puzzle found on chain, or on the node
\* construct_puzzle has just built
ParsePuzzle ==
    /\ \/ /\ lq = NoLayerQuery
          /\ \E node \in OnChainPuzzles :
                lq' = [op |-> "parse_puzzle", from |-> "chain", value |-> NoValue,
                       node |-> node, hash |-> NoValue,
                       result |-> parse_puzzle(PuzzleParse(node))]
       \/ /\ lq.op = "construct_puzzle"
          /\ lq' = [lq EXCEPT !.op = "parse_puzzle",
                              !.result = parse_puzzle(PuzzleParse(lq.node))]
    /\ UNCHANGED <<hq, mintVars, extVars>>

\* layer.construct_solution(ctx, solution)
ConstructSolution ==
    /\ lq = NoLayerQuery
    /\ \E solution \in Solutions :
          lq' = [op |-> "construct_solution", from |-> "value", value |-> solution,
                 node |-> construct_solution(solution), hash |-> NoValue,
                 result |-> NoValue]
    /\ UNCHANGED <<hq, mintVars, extVars>>

\* SingletonLayer::parse_solution on a solution found on chain, or on the
\* node construct_solution has just built
ParseSolution ==
    /\ \/ /\ lq = NoLayerQuery
          /\ \E node \in OnChainSolutions :
                lq' = [op |-> "parse_solution", from |-> "chain", value |-> NoValue,
                       node |-> node, hash |-> NoValue,
                       result |-> parse_solution(node)]
       \/ /\ lq.op = "construct_solution"
          /\ lq' = [lq EXCEPT !.op = "parse_solution",
                              !.result = parse_solution(lq.node)]
    /\ UNCHANGED <<hq, mintVars, extVars>>

---------------------------------------------------------------------------
(* What the spent puzzles announce and assert when they run.               *)

\* opcode and first argument of a condition (opcode arg ...)
ConditionOpcode(condition) == RawBytes(condition[2][2])[1]
ConditionArg(condition) == condition[3][2][2]

\* The NFT intermediate launcher, curried with (LAUNCHER_PH MINT_NUMBER
\* MINT_TOTAL), announces (sha256 MINT_NUMBER MINT_TOTAL) as its coin.
IntermediateLauncherCreated(spend) ==
    LET args == CurriedFromClvm(Deserialize(spend.puzzle_reveal))[3]
        mint_number == CurriedFirst(CurriedRest(args))
        mint_total == CurriedFirst(CurriedRest(CurriedRest(args)))
        message == Sha256(Concat(mint_number[2], mint_total[2]))
    IN  {<<"coin", Sha256(Concat(CoinId(spend.coin), message))>>}

\* The singleton launcher announces the tree hash of its solution
\* (singleton_puzzle_hash amount key_value_list) as its coin.
LauncherCreated(spend) ==
    LET message == TreeHash(Deserialize(spend.solution))
    IN  {<<"coin", Sha256(Concat(CoinId(spend.coin), message))>>}

\* the conditions the delegated puzzle of an NFT spend quotes
NftSpendConditions(spend) ==
    LET solution == Deserialize(spend.solution)
        state_layer_solution == solution[3][3][2]
        ownership_layer_solution == state_layer_solution[2]
        p2_solution == ownership_layer_solution[2]
        delegated_puzzle == p2_solution[3][2]
    IN  delegated_puzzle[3]

RECURSIVE ListItems(_)
ListItems(n) == IF IsPair(n) THEN <<n[2]>> \o ListItems(n[3]) ELSE <<>>

\* the puzzle hash of the DID singleton that owns an NFT
DidPuzzleHash(did_id, did_inner_puzzle_hash) ==
    curry_tree_hash(SINGLETON_TOP_LAYER_PUZZLE_HASH,
                    <<TreeHash(SingletonStructNode(SingletonStruct(did_id))),
                      did_inner_puzzle_hash>>)

NewOwnerConditions(spend) ==
    LET conditions == ListItems(NftSpendConditions(spend))
    IN  {conditions[i] : i \in {j \in 1..Len(conditions) :
                                    ConditionOpcode(conditions[j]) = 246}}

\* The ownership layer of a spent NFT announces, as its puzzle, 0xad4c
\* followed by the tree hash of the NewNftOwner arguments.
NftCreated(spend) ==
    {<<"puzzle", Sha256(Concat(spend.coin.puzzle_hash,
                               Concat(Raw(<<173, 76>>), TreeHash(c[3]))))>> :
        c \in NewOwnerConditions(spend)}

\* The transfer program of a spent NFT asserts that the new owner DID
\* announces the NFT's launcher id.
NftAsserted(spend) ==
    LET args == CurriedFromClvm(Deserialize(spend.puzzle_reveal))[3]
        launcher_id == CurriedFirst(args)[3][2][2]
    IN  {<<"puzzle", Sha256(Concat(DidPuzzleHash(c[3][2][2], c[3][3][3][2][2]),
                                   launcher_id))>> :
            c \in {d \in NewOwnerConditions(spend) : d[3][2] # Nil}}

\* announcements a coin creates by emitting the given conditions
ConditionsCreated(coin_id, puzzle_hash, conditions) ==
    {<<"coin", Sha256(Concat(coin_id, ConditionArg(conditions[i])))>> :
        i \in {j \in 1..Len(conditions) : ConditionOpcode(conditions[j]) = 60}}
    \cup
    {<<"puzzle", Sha256(Concat(puzzle_hash, ConditionArg(conditions[i])))>> :
        i \in {j \in 1..Len(conditions) : ConditionOpcode(conditions[j]) = 62}}

\* announcements a coin asserts by emitting the given conditions
ConditionsAsserted(conditions) ==
    {<<"coin", ConditionArg(conditions[i])>> :
        i \in {j \in 1..Len(conditions) : ConditionOpcode(conditions[j]) = 61}}
    \cup
    {<<"puzzle", ConditionArg(conditions[i])>> :
        i \in {j \in 1..Len(conditions) : ConditionOpcode(conditions[j]) = 63}}

\* The bundle of item k (from 1): its three coin spends and the funding
\* spend, the DID coin inputs[k].parent_coin_id, emitting its parent
\* conditions.
ItemCreated(k) ==
    IntermediateLauncherCreated(coin_spends[3 * k - 2])
    \cup LauncherCreated(coin_spends[3 * k - 1])
    \cup NftCreated(coin_spends[3 * k])
    \cup ConditionsCreated(inputs[k].parent_coin_id,
                           DidPuzzleHash(params.did_id, params.did_inner_puzzle_hash),
                           outputs[k].parent_conditions)

ItemAsserted(k) ==
    NftAsserted(coin_spends[3 * k])
    \cup ConditionsAsserted(outputs[k].parent_conditions)

BundleCreated == UNION {ItemCreated(k) : k \in 1..Len(outputs)}
BundleAsserted == UNION {ItemAsserted(k) : k \in 1..Len(outputs)}

---------------------------------------------------------------------------
(* mint_nfts as a loop over its inputs.                                    *)

MaxMint == 2

BulkBatch == 128

MintInputs ==
    {[owner_puzzle_hash |-> B32("owner1"), royalty_puzzle_hash |-> B32("h1"),
      royalty_percentage |-> 100, metadata |-> Nil,
      parent_coin_id |-> B32("p1"), amount |-> 1],
     [owner_puzzle_hash |-> B32("owner2"), royalty_puzzle_hash |-> B32("h2"),
      royalty_percentage |-> 300,
      metadata |-> ListNode(<<IntAtom(4), IntAtom(5), IntAtom(6)>>),
      parent_coin_id |-> B32("p1"), amount |-> 1],
     [owner_puzzle_hash |-> B32("owner1"), royalty_puzzle_hash |-> B32("h1"),
      royalty_percentage |-> 0, metadata |-> Nil,
      parent_coin_id |-> B32("p2"), amount |-> 128],
     [owner_puzzle_hash |-> B32("owner1"), royalty_puzzle_hash |-> B32("h1"),
      royalty_percentage |-> 100, metadata |-> Nil,
      parent_coin_id |-> B32("p2"), amount |-> 3]}

MintParams ==
    [synthetic_key : {PublicKey("k1")},
     did_id : {B32("did1"), B32("did2")},
     did_inner_puzzle_hash : {B32("h1")}]

\* mint_nfts is called with a batch of up to MaxMint items
MintStart ==
    /\ pc = "idle"
    /\ \E n \in 0..MaxMint :
          \E ins \in [1..n -> MintInputs] :
              inputs' = [i \in 1..n |-> ins[i]]
    /\ params' \in MintParams
    /\ mint_index' = 0
    /\ coin_spends' = <<>>
    /\ outputs' = <<>>
    /\ pc' = "loop"
    /\ UNCHANGED <<hq, lq, extVars>>

\* mint_nfts is called with BulkBatch copies of one item
MintStartBulk ==
    /\ pc = "idle"
    /\ \E input \in {x \in MintInputs : x.royalty_percentage = 300} :
          inputs' = [i \in 1..BulkBatch |-> input]
    /\ params' \in {x \in MintParams : x.did_id = B32("did1")}
    /\ mint_index' = 0
    /\ coin_spends' = <<>>
    /\ outputs' = <<>>
    /\ pc' = "loop"
    /\ UNCHANGED <<hq, lq, extVars>>

\* one iteration of `for (mint_index, input) in inputs.into_iter().enumerate()`
MintStep ==
    /\ pc = "loop"
    /\ mint_index < Len(inputs)
    /\ LET item == MintItem(inputs[mint_index + 1], mint_index, Len(inputs), params)
       IN  /\ coin_spends' = coin_spends \o item.coin_spends
           /\ outputs' = Append(outputs, item.output)
    /\ mint_index' = mint_index + 1
    /\ UNCHANGED <<hq, lq, inputs, params, pc, extVars>>

\* an allocation in the loop body fails: `?` returns the error and the
\* spends built so far are dropped
MintError ==
    /\ pc = "loop"
    /\ mint_index < Len(inputs)
    /\ pc' = "error"
    /\ mint_index' = 0
    /\ coin_spends' = <<>>
    /\ outputs' = <<>>
    /\ UNCHANGED <<hq, lq, inputs, params, extVars>>

\* Ok(BulkMint { coin_spends, outputs })
MintFinish ==
    /\ pc = "loop"
    /\ mint_index = Len(inputs)
    /\ pc' = "done"
    /\ UNCHANGED <<hq, lq, inputs, params, mint_index, coin_spends, outputs, extVars>>

---------------------------------------------------------------------------
(* Minting a single NFT from a launcher: mint_eve_nft and                  *)
(* mint_custom_standard_nft of the MintNft trait.                          *)

NoCall == [fn |-> "none"]

\* standard_puzzle_hash(&synthetic_key)
standard_puzzle_hash(synthetic_key) ==
    curry_tree_hash(STANDARD_PUZZLE_HASH, <<tree_hash_atom(synthetic_key)>>)

\* the puzzle hash of the singleton of a launcher id around an inner puzzle
SingletonPuzzleHash(launcher_id, inner_puzzle_hash) ==
    curry_tree_hash(SINGLETON_TOP_LAYER_PUZZLE_HASH,
                    <<TreeHash(SingletonStructNode(SingletonStruct(launcher_id))),
                      inner_puzzle_hash>>)

\* LaunchSingleton::finish(ctx, singleton_inner_puzzle_hash, key_value_list):
\* spends the launcher coin, which creates the eve coin at the singleton
\* puzzle hash computed from hashes alone, and returns the eve coin.
LaunchSingletonFinish(launcher_coin, singleton_inner_puzzle_hash) ==
    LET launcher_id == CoinId(launcher_coin)
        eve_puzzle_hash == SingletonPuzzleHash(launcher_id, singleton_inner_puzzle_hash)
        eve_message == ListNode(<<Atom(eve_puzzle_hash), IntAtom(launcher_coin.amount), Nil>>)
        launcher_spend ==
            CoinSpend(launcher_coin, Serialize(Prog("singleton_launcher")),
                      Serialize(LauncherSolution(eve_puzzle_hash, launcher_coin.amount)))
        chained_spend ==
            [parent_conditions |->
                 <<AssertCoinAnnouncement(
                       Sha256(Concat(launcher_id, TreeHash(eve_message))))>>,
             coin_spends |-> <<launcher_spend>>]
    IN  [chained_spend |-> chained_spend,
         eve_coin |-> Coin(launcher_id, eve_puzzle_hash, launcher_coin.amount)]

\* variant: the eve proof names the launcher coin itself as the parent
EveProofOf_launcher_id(launcher_coin) == [kind |-> "Eve", parent_coin_info |-> CoinId(launcher_coin), amount |-> launcher_coin.amount]

\* Proof::Eve(EveProof { parent_coin_info: launcher_coin.parent_coin_info,
\*                       amount: launcher_coin.amount })
EveProofOf(launcher_coin) == [kind |-> "Eve", parent_coin_info |-> launcher_coin.parent_coin_info, amount |-> launcher_coin.amount]

\* LaunchSingleton::mint_eve_nft
mint_eve_nft(launcher_coin, inner_puzzle_hash, metadata, metadata_updater_hash, royalty_puzzle_hash, royalty_percentage) ==
    LET metadata_hash == TreeHash(metadata)
        ownership_layer_hash ==
            nft_ownership_layer_hash(
                None,
                nft_royalty_transfer_hash(CoinId(launcher_coin), royalty_puzzle_hash,
                                          royalty_percentage),
                inner_puzzle_hash)
        nft_inner_puzzle_hash ==
            nft_state_layer_hash(metadata_hash, metadata_updater_hash,
                                 ownership_layer_hash)
        finished == LaunchSingletonFinish(launcher_coin, nft_inner_puzzle_hash)
        proof == EveProofOf(launcher_coin)
        nft_info == [launcher_id |-> CoinId(launcher_coin),
                     coin |-> finished.eve_coin,
                     proof |-> proof,
                     metadata |-> metadata,
                     metadata_updater_hash |-> metadata_updater_hash,
                     current_owner |-> None,
                     royalty_puzzle_hash |-> royalty_puzzle_hash,
                     royalty_percentage |-> royalty_percentage]
    IN  [chained_spend |-> finished.chained_spend,
         nft_inner_puzzle_hash |-> nft_inner_puzzle_hash,
         nft_info |-> nft_info]

\* the full puzzle of the NFT coin an NftInfo describes, around the inner
\* puzzle p2
NftInfoPuzzle(nft_info, p2) ==
    LET singleton_struct == SingletonStruct(nft_info.launcher_id)
        royalty_transfer ==
            NftRoyaltyTransferPuzzle(singleton_struct, nft_info.royalty_puzzle_hash,
                                     nft_info.royalty_percentage)
        ownership_layer ==
            NftOwnershipLayerPuzzle(nft_info.current_owner, royalty_transfer, p2)
        state_layer ==
            NftStateLayerPuzzle(nft_info.metadata, nft_info.metadata_updater_hash,
                                ownership_layer)
    IN  CurriedProgram(Prog("singleton_top_layer"),
                       <<SingletonStructNode(singleton_struct), state_layer>>)

\* spend_nft(ctx, &nft_info, inner_spend): the spend of the coin of an
\* NftInfo with its proof, the inner spend being the standard puzzle of the
\* synthetic key running the quoted conditions
SpendNftInfo(nft_info, synthetic_key, conditions) ==
    LET p2 == CurriedProgram(Prog("p2_delegated_puzzle_or_hidden_puzzle"),
                             <<Atom(synthetic_key)>>)
    IN  spend_nft(nft_info.coin, Serialize(NftInfoPuzzle(nft_info, p2)),
                  nft_info.proof, conditions)

\* mint_custom_standard_nft, lines 61-102: the spend of the eve coin that
\* mint_eve_nft returned and the NftInfo of the coin it creates
SpendEveNft(eve, inner_puzzle_hash, synthetic_key, did_id, did_inner_puzzle_hash) ==
    LET conditions ==
            ListNode(<<CreateCoinWithMemos(inner_puzzle_hash, eve.nft_info.coin.amount,
                                           <<inner_puzzle_hash>>),
                       NewNftOwner(Some(did_id), <<>>, Some(did_inner_puzzle_hash))>>)
        announcement ==
            AssertPuzzleAnnouncement(
                NewOwnerAnnouncementId(eve.nft_info.coin.puzzle_hash, did_id,
                                       did_inner_puzzle_hash))
        spend == SpendNftInfo(eve.nft_info, synthetic_key, conditions)
        proof == [kind |-> "Lineage",
                  parent_coin_info |-> eve.nft_info.launcher_id,
                  inner_puzzle_hash |-> eve.nft_inner_puzzle_hash,
                  amount |-> eve.nft_info.coin.amount]
        coin == Coin(CoinId(eve.nft_info.coin), eve.nft_info.coin.puzzle_hash,
                     eve.nft_info.coin.amount)
    IN  [chained_spend |->
             [parent_conditions |->
                  Append(eve.chained_spend.parent_conditions, announcement),
              coin_spends |-> Append(eve.chained_spend.coin_spends, spend)],
         nft_info |-> [eve.nft_info EXCEPT !.proof = proof, !.coin = coin]]

\* MintNft::mint_custom_standard_nft
mint_custom_standard_nft(launcher_coin, metadata, metadata_updater_hash, royalty_puzzle_hash, royalty_percentage, synthetic_key, did_id, did_inner_puzzle_hash) ==
    SpendEveNft(mint_eve_nft(launcher_coin, standard_puzzle_hash(synthetic_key), metadata,
                             metadata_updater_hash, royalty_puzzle_hash,
                             royalty_percentage),
                standard_puzzle_hash(synthetic_key), synthetic_key, did_id,
                did_inner_puzzle_hash)

\* The coin an NFT spend creates. The inner puzzle emits CREATE_COIN and
\* NewNftOwner; the ownership layer wraps the created puzzle hash with the
\* new owner and its transfer program, the state layer with its metadata and
\* updater, the singleton layer with its struct.
NftSpendChild(nft_info, spend) ==
    LET conditions == ListItems(NftSpendConditions(spend))
        create == conditions[CHOOSE i \in 1..Len(conditions) :
                                 ConditionOpcode(conditions[i]) = 51]
        owners == NewOwnerConditions(spend)
        new_owner ==
            IF owners = {} THEN nft_info.current_owner
            ELSE LET c == CHOOSE d \in owners : TRUE
                 IN  IF c[3][2] = Nil THEN None ELSE Some(c[3][2][2])
        transfer_program ==
            NftRoyaltyTransferPuzzle(SingletonStruct(nft_info.launcher_id),
                                     nft_info.royalty_puzzle_hash,
                                     nft_info.royalty_percentage)
        inner_puzzle_hash ==
            nft_state_layer_hash(
                TreeHash(nft_info.metadata), nft_info.metadata_updater_hash,
                nft_ownership_layer_hash(new_owner, TreeHash(transfer_program),
                                         ConditionArg(create)))
    IN  [coin |-> Coin(CoinId(spend.coin),
                       SingletonPuzzleHash(nft_info.launcher_id, inner_puzzle_hash),
                       BytesValue(RawBytes(create[3][3][2][2]))),
         current_owner |-> new_owner]

\* launcher coins handed to the MintNft trait
LauncherCoins ==
    {Coin(parent, SINGLETON_LAUNCHER_PUZZLE_HASH, amount) :
        parent \in Parents, amount \in {1, 128}}

SingleMintRoyalties == {0, 300, 32768}

\* launcher.mint_eve_nft(ctx, inner_puzzle_hash, metadata, ...)
MintEveNft ==
    /\ fq = NoCall
    /\ pc = "idle"
    /\ \E launcher_coin \in LauncherCoins, metadata \in {Nil, IntAtom(7)},
          royalty_percentage \in SingleMintRoyalties, key \in {PublicKey("k1")} :
          fq' = [fn |-> "mint_eve_nft",
                 launcher_coin |-> launcher_coin,
                 eve |-> mint_eve_nft(launcher_coin, standard_puzzle_hash(key), metadata,
                                      NFT_METADATA_UPDATER_PUZZLE_HASH, B32("h1"),
                                      royalty_percentage)]
    /\ pc' = "returned"
    /\ UNCHANGED <<hq, lq, inputs, params, mint_index, coin_spends, outputs, sel, sctx>>

\* what a call of mint_custom_standard_nft is observed to do: the NftInfo of
\* its eve coin, its result, and the coin its eve spend creates
CustomMintCall(launcher_coin, did_id, eve, result) ==
    [fn |-> "mint_custom_standard_nft", launcher_coin |-> launcher_coin,
     did_id |-> did_id, eve |-> eve, result |-> result,
     created |-> NftSpendChild(eve.nft_info, result.chained_spend.coin_spends[2])]

\* launcher.mint_custom_standard_nft(ctx, metadata, ...)
MintCustomStandardNft ==
    /\ fq = NoCall
    /\ pc = "idle"
    /\ \E launcher_coin \in LauncherCoins, metadata \in {Nil, IntAtom(7)},
          royalty_percentage \in SingleMintRoyalties, key \in {PublicKey("k1")},
          did_id \in {B32("did1"), B32("did2")} :
          fq' = CustomMintCall(
                    launcher_coin, did_id,
                    mint_eve_nft(launcher_coin, standard_puzzle_hash(key), metadata,
                                 NFT_METADATA_UPDATER_PUZZLE_HASH, B32("h1"),
                                 royalty_percentage),
                    mint_custom_standard_nft(launcher_coin, metadata,
                                             NFT_METADATA_UPDATER_PUZZLE_HASH, B32("h1"),
                                             royalty_percentage, key, did_id, B32("h2")))
    /\ pc' = "returned"
    /\ UNCHANGED <<hq, lq, inputs, params, mint_index, coin_spends, outputs, sel, sctx>>

---------------------------------------------------------------------------
(* select_coins, step by step.  sel holds its parameters, its locals, the  *)
(* position reached and the value returned.  A HashSet<Coin> is a set of   *)
(* coins; a panic is the result <<"panic", what>>.                         *)

max_coins == 500

\* rounds of the knapsack (`for _ in 0..1000`)
KnapsackRounds == 2

\* largest wallet whose every order and every generator stream is explored
MaxWallet == 3

\* u128::MAX, the max_amount select_coins passes to the knapsack: the
\* largest integer of the model, above every sum of amounts
max_amount == 2147483647

NoSelection == [pc |-> "none"]

Panic(what) == <<"panic", what>>

\* the sum of the amounts of the coins at the given positions of a list
\* (`acc + coin.amount as u128` over them), grouped by amount
RECURSIVE SumByAmount(_, _, _)
SumByAmount(coins, positions, amounts) ==
    IF amounts = {} THEN 0
    ELSE LET a == CHOOSE x \in amounts : TRUE
         IN  a * Cardinality({i \in positions : coins[i].amount = a})
             + SumByAmount(coins, positions, amounts \ {a})

SumAmounts(coins, positions) ==
    SumByAmount(coins, positions, {coins[i].amount : i \in positions})

\* the sum of the amounts of a set of coins
SetAmount(coin_set) ==
    LET amounts == {c.amount : c \in coin_set}
        SumOver[as \in SUBSET amounts] ==
            IF as = {} THEN 0
            ELSE LET a == CHOOSE x \in as : TRUE
                 IN  a * Cardinality({c \in coin_set : c.amount = a}) + SumOver[as \ {a}]
    IN  SumOver[amounts]

IsSortedDescending(coins) ==
    \A i \in 1..(Len(coins) - 1) : coins[i].amount >= coins[i + 1].amount

\* the orders of a list
Orders(coins) ==
    {[i \in 1..Len(coins) |-> coins[p[i]]] :
        p \in {q \in [1..Len(coins) -> 1..Len(coins)] :
                   \A i, j \in 1..Len(coins) : q[i] = q[j] => i = j}}

\* variant: the list is left in the order given
SortedByAmount_unsorted(coins) == {coins}

\* spendable_coins.sort_unstable_by_key(|coin| Reverse(coin.amount)): the
\* order of coins of equal amount is not specified.  A list longer than
\* MaxWallet holds coins of one amount only and keeps its order.
SortedByAmount(coins) ==
    IF Len(coins) > MaxWallet /\ IsSortedDescending(coins) THEN {coins}
    ELSE {s \in Orders(coins) : IsSortedDescending(s)}

\* variant: the reverse scan returns its first coin, the smallest of all
smallest_coin_above_last(coins, amount) == IF coins[1].amount < amount THEN None ELSE Some(coins[Len(coins)])

smallest_coin_above(coins, amount) ==
    IF coins[1].amount < amount THEN None
    ELSE LET above == {i \in 1..Len(coins) : coins[i].amount >= amount}
         IN  IF above = {} THEN Panic("unreachable in smallest_coin_above")
             ELSE Some(coins[CHOOSE i \in above : \A j \in above : j <= i])

\* the selected coins as <<"coins", set>>, or the panic
sum_largest_coins(coins, amount) ==
    LET reached == {k \in 1..Len(coins) : SumAmounts(coins, 1..k) >= amount}
    IN  IF reached = {} THEN Panic("unreachable in sum_largest_coins")
        ELSE LET k == CHOOSE x \in reached : \A y \in reached : x <= y
             IN  <<"coins", {coins[i] : i \in 1..k}>>

\* variant: the balance error carries the requested amount
InsufficientBalance_requested(spendable_amount, amount) == Err(<<"InsufficientBalance", amount>>)

\* Err(CoinSelectionError::InsufficientBalance(spendable_amount))
InsufficientBalance(spendable_amount, amount) == Err(<<"InsufficientBalance", spendable_amount>>)

NoSpendableCoins == Err(<<"NoSpendableCoins">>)
ExceededMaxCoins == Err(<<"ExceededMaxCoins">>)

\* a wallet coin: the coins of a wallet share their puzzle hash
WalletCoin(id, amount) == Coin(B32(id), B32(0), amount)

\* distinct coins of amounts 1, 2, 2 and 5
SmallCoins == {WalletCoin(1, 1), WalletCoin(2, 2), WalletCoin(3, 2), WalletCoin(4, 5)}

\* the wallets of up to MaxWallet coins, a coin possibly listed twice, each
\* listed in ascending order of amount
SmallWallets ==
    UNION {{w \in [1..n -> SmallCoins] :
               \A i \in 1..(n - 1) :
                   \/ w[i].amount < w[i + 1].amount
                   \/ /\ w[i].amount = w[i + 1].amount
                      /\ w[i].parent_coin_info[1][2] <= w[i + 1].parent_coin_info[1][2]} :
           n \in 0..MaxWallet}

RequestedAmounts == 0..6

\* wallets of more than max_coins coins of amount 1
LargeWallets ==
    {[i \in 1..n |-> WalletCoin(i, 1)] : n \in {max_coins + 2, max_coins + 3}}

\* the generator's stream: any bit at each draw, or a constant stream
RngBits(rng) == IF rng = "any" THEN BOOLEAN ELSE {rng = "ones"}

SelectionOf(coins, amount, rng) ==
    [pc |-> "check", spendable_coins |-> coins, amount |-> amount, rng |-> rng,
     round |-> 0, pass |-> 0, i |-> 1,
     selected_coins |-> {}, selected_sum |-> 0, target_reached |-> FALSE,
     best_sum |-> max_amount, best_coins |-> None,
     unwrapped |-> NoValue, result |-> NoValue]

selFrame == <<hq, lq, mintVars, fq, sctx>>

\* select_coins(spendable_coins, amount) is called on a small wallet
SelectCoins ==
    /\ sel = NoSelection
    /\ \E coins \in SmallWallets, amount \in RequestedAmounts :
          sel' = SelectionOf(coins, amount, "any")
    /\ UNCHANGED selFrame

\* select_coins is called on a large wallet for an amount above max_coins
SelectCoinsLarge ==
    /\ sel = NoSelection
    /\ \E coins \in LargeWallets, amount \in {max_coins + 1, max_coins + 2},
          rng \in {"ones", "zeros"} :
          sel' = SelectionOf(coins, amount, rng)
    /\ UNCHANGED selFrame

\* lines 31-43: the empty list and the insufficient balance
SelectCheck ==
    /\ sel.pc = "check"
    /\ LET coins == sel.spendable_coins
           spendable_amount == SumAmounts(coins, 1..Len(coins))
       IN  sel' = IF coins = <<>>
                  THEN [sel EXCEPT !.pc = "returned", !.result = NoSpendableCoins]
                  ELSE IF spendable_amount < sel.amount
                  THEN [sel EXCEPT !.pc = "returned",
                                   !.result = InsufficientBalance(spendable_amount,
                                                                  sel.amount)]
                  ELSE [sel EXCEPT !.pc = "sort"]
    /\ UNCHANGED selFrame

\* line 46
SelectSort ==
    /\ sel.pc = "sort"
    /\ \E sorted \in SortedByAmount(sel.spendable_coins) :
          sel' = [sel EXCEPT !.pc = "match", !.spendable_coins = sorted]
    /\ UNCHANGED selFrame

\* lines 48-80 and 104-112: the exact coin, the smaller coins, the single
\* larger coin
SelectMatch ==
    /\ sel.pc = "match"
    /\ LET coins == sel.spendable_coins
           amount == sel.amount
           exact == {i \in 1..Len(coins) : coins[i].amount = amount}
           smaller == {i \in 1..Len(coins) : coins[i].amount < amount}
           smaller_coins == {coins[i] : i \in smaller}
           smaller_sum == SumAmounts(coins, smaller)
           above == smallest_coin_above(coins, amount)
           Returned(result) == [sel EXCEPT !.pc = "returned", !.result = result]
       IN  sel' =
             IF exact # {}
             THEN Returned(Ok({coins[CHOOSE i \in exact : \A j \in exact : i <= j]}))
             ELSE IF smaller_sum = amount /\ Cardinality(smaller_coins) < max_coins
                     /\ amount # 0
             THEN Returned(Ok(smaller_coins))
             ELSE IF smaller_sum < amount
             THEN [Returned(IF above[1] = "Some" THEN Ok({above[2]})
                            ELSE IF above = None
                            THEN Panic("unwrap of None") ELSE above)
                      EXCEPT !.unwrapped = above]
             ELSE IF smaller_sum > amount
             THEN [sel EXCEPT !.pc = "knapsack"]
             ELSE Returned(IF above[1] = "Some" THEN Ok({above[2]})
                           ELSE IF above = None THEN ExceededMaxCoins ELSE above)
    /\ UNCHANGED selFrame

\* lines 152-161 and 193-194: after the inner loop of a pass ends, the
\* second pass starts unless the target is reached, and then the next round
KnapsackNext(s, end_of_pass) ==
    IF ~end_of_pass THEN [s EXCEPT !.i = s.i + 1]
    ELSE IF s.pass = 0 /\ ~s.target_reached THEN [s EXCEPT !.pass = 1, !.i = 1]
    ELSE [s EXCEPT !.round = s.round + 1, !.pass = 0, !.i = 1,
                   !.selected_coins = {}, !.selected_sum = 0,
                   !.target_reached = FALSE,
                   !.pc = IF s.round + 1 = KnapsackRounds THEN "knapsack_end"
                          ELSE "knapsack"]

\* line 170: `if selected_coins.len() > max_coins { break; }`
KnapsackFull(selected_coins) == Cardinality(selected_coins) > max_coins

\* lines 162-192: one iteration of `for coin in spendable_coins`
KnapsackCoin ==
    /\ sel.pc = "knapsack"
    /\ LET coins == sel.spendable_coins
           coin == coins[sel.i]
           last == sel.i = Len(coins)
       IN  \E bit \in (IF sel.pass = 0 THEN RngBits(sel.rng) ELSE {FALSE}) :
             LET filter_first == sel.pass # 0 \/ ~bit
                 filter_second == sel.pass # 1 \/ coin \in sel.selected_coins
                 selected_sum == sel.selected_sum + coin.amount
                 selected_coins == sel.selected_coins \cup {coin}
                 improved == selected_sum < sel.best_sum
             IN  sel' =
                   IF filter_first /\ filter_second THEN KnapsackNext(sel, last)
                   ELSE IF KnapsackFull(sel.selected_coins) THEN KnapsackNext(sel, TRUE)
                   ELSE IF selected_sum = sel.amount
                   THEN [sel EXCEPT !.pc = "returned", !.selected_sum = selected_sum,
                                    !.selected_coins = selected_coins,
                                    !.result = Ok(selected_coins)]
                   ELSE IF selected_sum > sel.amount
                   THEN IF improved
                        THEN KnapsackNext(
                                 [sel EXCEPT !.target_reached = TRUE,
                                             !.best_sum = selected_sum,
                                             !.best_coins = Some(selected_coins),
                                             !.selected_sum = selected_sum - coin.amount,
                                             !.selected_coins = selected_coins \ {coin}],
                                 last)
                        ELSE KnapsackNext(
                                 [sel EXCEPT !.target_reached = TRUE,
                                             !.selected_sum = selected_sum,
                                             !.selected_coins = selected_coins],
                                 last)
                   ELSE KnapsackNext([sel EXCEPT !.selected_sum = selected_sum,
                                                 !.selected_coins = selected_coins],
                                     last)
    /\ UNCHANGED selFrame

\* lines 84-101: the knapsack's best coins, or the sum of the largest coins
KnapsackEnd ==
    /\ sel.pc = "knapsack_end"
    /\ LET summed_coins == sum_largest_coins(sel.spendable_coins, sel.amount)
       IN  sel' = [sel EXCEPT
                     !.pc = "returned",
                     !.result =
                         IF sel.best_coins # None THEN Ok(sel.best_coins[2])
                         ELSE IF summed_coins[1] = "panic" THEN summed_coins
                         ELSE IF Cardinality(summed_coins[2]) <= max_coins
                         THEN Ok(summed_coins[2])
                         ELSE ExceededMaxCoins]
    /\ UNCHANGED selFrame

---------------------------------------------------------------------------
(* SettlementSpend::finish on a spend context.  sctx holds the context's   *)
(* recorded coin spends, the call's parameters and locals, and its result. *)

NoSettlement == [pc |-> "none"]

\* Payment allocated: (puzzle_hash amount)
PaymentNode(payment) == ListNode(<<Atom(payment.puzzle_hash), IntAtom(payment.amount)>>)

\* NotarizedPayment allocated: (nonce . payments)
NotarizedPaymentNode(notarized_payment) ==
    Pair(Atom(notarized_payment.nonce),
         ListNode([i \in 1..Len(notarized_payment.payments) |->
                       PaymentNode(notarized_payment.payments[i])]))

\* variant: the payments are allocated last to first
SettlementPaymentsSolutionNode_reversed(notarized_payments) == ListNode([i \in 1..Len(notarized_payments) |-> NotarizedPaymentNode(notarized_payments[Len(notarized_payments) + 1 - i])])

\* ctx.alloc(&SettlementPaymentsSolution { notarized_payments })
SettlementPaymentsSolutionNode(notarized_payments) ==
    ListNode([i \in 1..Len(notarized_payments) |->
                  NotarizedPaymentNode(notarized_payments[i])])

\* the notarized payments a settlement solution node holds
SettlementPaymentsFromClvm(node) ==
    LET items == ListItems(node)
        PaymentOf(p) == [puzzle_hash |-> p[2][2],
                         amount |-> BytesValue(RawBytes(p[3][2][2]))]
        PaymentsOf(n) == LET ps == ListItems(n) IN [i \in 1..Len(ps) |-> PaymentOf(ps[i])]
    IN  [i \in 1..Len(items) |->
             [nonce |-> items[i][2][2], payments |-> PaymentsOf(items[i][3])]]

NotarizedPayments ==
    {[nonce |-> B32("n1"),
      payments |-> <<[puzzle_hash |-> B32("h1"), amount |-> 1]>>],
     [nonce |-> B32("n2"),
      payments |-> <<[puzzle_hash |-> B32("h2"), amount |-> 128],
                     [puzzle_hash |-> B32("h1"), amount |-> 0]>>]}

\* coin spends a context holds before the call
RecordedSpends ==
    {<<>>,
     <<CoinSpend(Coin(B32("p1"), B32("h1"), 1), Serialize(Nil), Serialize(Nil))>>,
     <<CoinSpend(Coin(B32("p1"), B32("h1"), 1), Serialize(Nil), Serialize(Nil)),
       CoinSpend(Coin(B32("p2"), B32("h2"), 3), Serialize(Prog("settlement_payments")),
                 Serialize(Nil))>>}

SettlementCoins ==
    {Coin(B32("p1"), B32("settlement_payments"), 1),
     Coin(B32("p2"), B32("settlement_payments"), 128)}

settleFrame == <<hq, lq, mintVars, fq, sel>>

\* SettlementSpend::new(notarized_payments).finish(ctx, coin) is called
SettlementFinish ==
    /\ sctx = NoSettlement
    /\ \E recorded \in RecordedSpends, coin \in SettlementCoins, n \in 0..2 :
          \E notarized_payments \in [1..n -> NotarizedPayments] :
              sctx' = [pc |-> "inner_spend",
                       coin_spends |-> recorded, recorded_before |-> recorded,
                       coin |-> coin, notarized_payments |-> notarized_payments,
                       puzzle |-> NoValue, solution |-> NoValue,
                       puzzle_reveal |-> NoValue, solution_bytes |-> NoValue,
                       result |-> NoValue]
    /\ UNCHANGED settleFrame

\* lines 16-22 and 25: the settlement puzzle and the allocated solution
FinishInnerSpend ==
    /\ sctx.pc = "inner_spend"
    /\ sctx' = [sctx EXCEPT
                  !.pc = "serialize",
                  !.puzzle = Prog("settlement_payments"),
                  !.solution = SettlementPaymentsSolutionNode(sctx.notarized_payments)]
    /\ UNCHANGED settleFrame

\* lines 26-27: ctx.serialize of the puzzle and of the solution
FinishSerialize ==
    /\ sctx.pc = "serialize"
    /\ sctx' = [sctx EXCEPT !.pc = "spend",
                            !.puzzle_reveal = Serialize(sctx.puzzle),
                            !.solution_bytes = Serialize(sctx.solution)]
    /\ UNCHANGED settleFrame

\* a `?` of lines 17-27 returns the error of the puzzle load, the
\* allocation or the serialization
FinishError ==
    /\ sctx.pc \in {"inner_spend", "serialize"}
    /\ sctx' = [sctx EXCEPT !.pc = "returned", !.result = Err(<<"SpendError">>)]
    /\ UNCHANGED settleFrame

\* ctx.spend(coin_spend): the context records the coin spend after those it
\* holds
ContextSpend(recorded, coin_spend) == Append(recorded, coin_spend)

\* lines 28-29: ctx.spend(CoinSpend::new(coin, puzzle_reveal, solution)); Ok(())
FinishSpend ==
    /\ sctx.pc = "spend"
    /\ sctx' = [sctx EXCEPT
                  !.pc = "returned",
                  !.coin_spends =
                      ContextSpend(sctx.coin_spends,
                                   CoinSpend(sctx.coin, sctx.puzzle_reveal,
                                             sctx.solution_bytes)),
                  !.result = Ok(<<>>)]
    /\ UNCHANGED settleFrame

---------------------------------------------------------------------------
(* Single calls of usize_to_bytes and spend_nft.                           *)

\* usize values around the byte boundaries
UsizeValues == {0, 1, 127, 128, 255, 256, 257, 32768, 65535, 65536, 16777216, 2147483647}

\* usize_to_bytes(amount)
UsizeToBytes ==
    /\ fq = NoCall
    /\ pc = "idle"
    /\ \E amount \in UsizeValues :
          fq' = [fn |-> "usize_to_bytes", amount |-> amount,
                 bytes |-> usize_to_bytes(amount)]
    /\ pc' = "returned"
    /\ UNCHANGED <<hq, lq, inputs, params, mint_index, coin_spends, outputs, sel, sctx>>

\* coins, puzzle reveals and condition lists handed to spend_nft
SpentCoins == {Coin(parent, B32("h1"), amount) : parent \in Parents, amount \in Amounts}

PuzzleReveals == {Serialize(Nil), Serialize(Prog("singleton_top_layer"))}

ConditionLists ==
    {Nil,
     ListNode(<<CreateCoinWithoutMemos(B32("h1"), 1)>>),
     ListNode(<<CreateCoinWithMemos(B32("h2"), 128, <<B32("h2")>>),
                NewNftOwner(Some(B32("did1")), <<>>, Some(B32("h1")))>>)}

\* spend_nft(ctx, coin, puzzle_reveal, proof, conditions)
SpendNft ==
    /\ fq = NoCall
    /\ pc = "idle"
    /\ \E coin \in SpentCoins, puzzle_reveal \in PuzzleReveals, proof \in Proofs,
          conditions \in ConditionLists :
          fq' = [fn |-> "spend_nft", coin |-> coin, puzzle_reveal |-> puzzle_reveal,
                 proof |-> proof, conditions |-> conditions,
                 coin_spend |-> spend_nft(coin, puzzle_reveal, proof, conditions)]
    /\ pc' = "returned"
    /\ UNCHANGED <<hq, lq, inputs, params, mint_index, coin_spends, outputs, sel, sctx>>


InitIdle ==
    /\ hq = NoQuery
    /\ lq = NoLayerQuery
    /\ inputs = <<>>
    /\ params = NoParams
    /\ mint_index = 0
    /\ coin_spends = <<>>
    /\ outputs = <<>>
    /\ pc = "idle"
    /\ fq = NoCall
    /\ sel = NoSelection
    /\ sctx = NoSettlement

NextHash == StateLayerHash \/ OwnershipLayerHash \/ RoyaltyTransferHash

SpecHash == InitIdle /\ [][NextHash]_vars

\* C1: whenever nft_state_layer_hash or nft_ownership_layer_hash has been
\* computed, for any fields and for current_owner None or Some(id), the
\* result equals the tree hash of the fully constructed curried puzzle.
C1_LayerHashEqualsAllocated ==
    hq.fn \in {"nft_state_layer_hash", "nft_ownership_layer_hash"}
        => hq.puzzle_hash = hq.allocated_puzzle_hash

\* C1 witness: the ownership layer hash was computed with current_owner = None,
\* and the owner argument of the allocated puzzle is the empty atom.
C1_Witness ==
    /\ hq.fn = "nft_ownership_layer_hash"
    /\ hq.args[1] = None
    /\ OptionAtom(hq.args[1]) = Atom(<<>>)
    /\ hq.puzzle_hash = hq.allocated_puzzle_hash

\* C2: whenever nft_royalty_transfer_hash has been computed, for any launcher
\* id, royalty puzzle hash and u16 percentage, the result equals the tree
\* hash of the fully constructed royalty-transfer puzzle, whose percentage
\* argument is the integer's canonical atom.
C2_RoyaltyHashEqualsAllocated ==
    hq.fn = "nft_royalty_transfer_hash" => hq.puzzle_hash = hq.allocated_puzzle_hash

NextLayer == ConstructPuzzle \/ ParsePuzzle \/ ConstructSolution \/ ParseSolution

SpecLayer == InitIdle /\ [][NextLayer]_vars

\* C3: for every SingletonLayer value, tree_hash(layer) equals the tree hash
\* of the node construct_puzzle(layer) returns.
C3_TreeHashEqualsConstructed ==
    lq.op = "construct_puzzle" => lq.hash = TreeHash(lq.node)

\* C4: parse_puzzle of a puzzle curried from the singleton top layer whose
\* SingletonStruct has a non-canonical mod_hash or launcher_puzzle_hash is
\* Err(InvalidSingletonStruct), whatever the inner puzzle is.
C4_TamperedStructIsError ==
    \A st \in SingletonStructs, n \in InnerNodes :
        (/\ lq.op = "parse_puzzle"
         /\ lq.node = SingletonPuzzleNode(st, n)
         /\ ~IsCanonical(st))
            => lq.result = Err("InvalidSingletonStruct")

\* C4 witness: a puzzle with a tampered launcher_puzzle_hash only, whose inner
\* puzzle the inner layer does not recognise, was parsed.
C4_Witness ==
    /\ lq.op = "parse_puzzle"
    /\ lq.node = SingletonPuzzleNode(
                     [mod_hash |-> SINGLETON_TOP_LAYER_PUZZLE_HASH,
                      launcher_id |-> B32("l1"),
                      launcher_puzzle_hash |-> B32("h2")], Nil)
    /\ lq.result = Err("InvalidSingletonStruct")

\* C5 as stated: for any SingletonLayer value v, with any singleton_struct
\* field values, parse_puzzle(construct_puzzle(v)) is Ok(Some(v)).
C5_RoundTripAnyStruct ==
    (lq.op = "parse_puzzle" /\ lq.from = "value") => lq.result = Ok(Some(lq.value))

\* C5 amended: for any SingletonLayer value v whose singleton_struct carries
\* the canonical mod_hash and launcher_puzzle_hash (any launcher_id),
\* parse_puzzle(construct_puzzle(v)) is Ok(Some(v)); for any other struct it
\* is Err(InvalidSingletonStruct).
C5_RoundTripCanonicalStruct ==
    (lq.op = "parse_puzzle" /\ lq.from = "value")
        => IF IsCanonical(lq.value.singleton_struct)
           THEN lq.result = Ok(Some(lq.value))
           ELSE lq.result = Err("InvalidSingletonStruct")

\* C5 witness: a constructed puzzle with a canonical struct was parsed back.
C5_Witness ==
    /\ lq.op = "parse_puzzle"
    /\ lq.from = "value"
    /\ IsCanonical(lq.value.singleton_struct)
    /\ lq.value.singleton_struct.launcher_id = B32("l2")
    /\ lq.node = construct_puzzle(lq.value)
    /\ lq.result = Ok(Some(lq.value))

\* C6: for any singleton solution s, parse_solution(construct_solution(s))
\* is Ok with the same lineage proof (variant and fields), amount and inner
\* solution.
C6_SolutionRoundTrip ==
    (lq.op = "parse_solution" /\ lq.from = "value")
        => /\ ~IsErr(lq.result)
           /\ lq.result[2].lineage_proof = lq.value.lineage_proof
           /\ lq.result[2].amount = lq.value.amount
           /\ lq.result[2].inner_solution = lq.value.inner_solution

\* C6 witness: a solution carrying a Lineage proof and an amount whose atom
\* needs a sign byte was constructed and parsed back.
C6_Witness ==
    /\ lq.op = "parse_solution"
    /\ lq.from = "value"
    /\ lq.value.lineage_proof.kind = "Lineage"
    /\ lq.value.amount = 128
    /\ lq.result = Ok(lq.value)

\* C7: parse_puzzle is Ok(None) for a puzzle that is not curried or whose
\* program is not the singleton top layer; for a canonical singleton puzzle
\* it is Ok(None) when the inner layer's parse_puzzle is Ok(None), and the
\* inner layer's error when that is an error.
C7_RecognitionMiss ==
    lq.op = "parse_puzzle" =>
        LET puzzle == PuzzleParse(lq.node)
        IN  /\ puzzle.kind # "Curried" => lq.result = Ok(None)
            /\ (puzzle.kind = "Curried"
                    /\ puzzle.mod_hash # SINGLETON_TOP_LAYER_PUZZLE_HASH)
                   => lq.result = Ok(None)
            /\ \A st \in SingletonStructs, n \in InnerNodes :
                   (IsCanonical(st) /\ lq.node = SingletonPuzzleNode(st, n))
                       => LET inner == InnerParsePuzzle(PuzzleParse(n))
                          IN  /\ inner = Ok(None) => lq.result = Ok(None)
                              /\ IsErr(inner) => lq.result = inner

\* C7 witness: a canonical singleton puzzle whose inner puzzle the inner layer
\* does not recognise was parsed to Ok(None).
C7_Witness ==
    /\ lq.op = "parse_puzzle"
    /\ lq.node = SingletonPuzzleNode(SingletonStruct(B32("l1")),
                                     CurriedProgram(Prog("nft_state_layer"), <<Nil>>))
    /\ lq.result = Ok(None)

NextMint == MintStart \/ MintStep \/ MintError \/ MintFinish

SpecMint == InitIdle /\ [][NextMint]_vars

NextMintBulk == MintStart \/ MintStartBulk \/ MintStep \/ MintError \/ MintFinish

SpecMintBulk == InitIdle /\ [][NextMintBulk]_vars

IntermediateSpendOf(k) == coin_spends[3 * k - 2]
LauncherSpendOf(k) == coin_spends[3 * k - 1]
EveSpendOf(k) == coin_spends[3 * k]

\* C9: mint_nfts on N inputs returns 3N coin spends and N outputs; the spends
\* of item k are, in this order, the intermediate launcher spend, the
\* launcher spend and the eve spend; the intermediate coin's parent is the
\* item's parent_coin_id, the launcher coin's parent is the intermediate coin
\* id, the eve coin's parent is the launcher coin id, and the launcher
\* solution carries the eve coin's puzzle hash and amount.
C9_SpendsOrderedAndChained ==
    pc = "done" =>
        /\ Len(coin_spends) = 3 * Len(inputs)
        /\ Len(outputs) = Len(inputs)
        /\ \A k \in 1..Len(inputs) :
               LET intermediate == IntermediateSpendOf(k)
                   launcher == LauncherSpendOf(k)
                   eve == EveSpendOf(k)
                   intermediate_puzzle == PuzzleParse(Deserialize(intermediate.puzzle_reveal))
                   eve_puzzle == PuzzleParse(Deserialize(eve.puzzle_reveal))
                   launcher_solution == ListItems(Deserialize(launcher.solution))
               IN  /\ intermediate_puzzle.kind = "Curried"
                   /\ intermediate_puzzle.mod_hash = NFT_INTERMEDIATE_LAUNCHER_PUZZLE_HASH
                   /\ TreeHash(Deserialize(launcher.puzzle_reveal))
                          = SINGLETON_LAUNCHER_PUZZLE_HASH
                   /\ launcher.coin.puzzle_hash = SINGLETON_LAUNCHER_PUZZLE_HASH
                   /\ eve_puzzle.kind = "Curried"
                   /\ eve_puzzle.mod_hash = SINGLETON_TOP_LAYER_PUZZLE_HASH
                   /\ intermediate.coin.parent_coin_info = inputs[k].parent_coin_id
                   /\ launcher.coin.parent_coin_info = CoinId(intermediate.coin)
                   /\ eve.coin.parent_coin_info = CoinId(launcher.coin)
                   /\ Len(launcher_solution) = 3
                   /\ launcher_solution[1] = Atom(eve.coin.puzzle_hash)
                   /\ launcher_solution[2] = IntAtom(eve.coin.amount)

\* C9 witness: a batch of two different items has been minted.
C9_Witness ==
    /\ pc = "done"
    /\ Len(inputs) = 2
    /\ inputs[1].parent_coin_id # inputs[2].parent_coin_id
    /\ Len(coin_spends) = 6
    /\ EveSpendOf(2).coin.parent_coin_info = CoinId(LauncherSpendOf(2).coin)

\* C10: for every item of a finished batch, parent_conditions contains a
\* CreateCoin with the puzzle hash and amount of the item's intermediate
\* launcher coin, an AssertCoinAnnouncement of
\* H(intermediate_coin_id ++ H(bytes(index) ++ bytes(total))) and an
\* AssertPuzzleAnnouncement of H(eve_puzzle_hash ++ 0xad4c ++
\* tree_hash((did_id, (), did_inner_puzzle_hash))), and launcher_id is the
\* coin id of the item's launcher coin.
C10_ParentConditions ==
    pc = "done" =>
        \A k \in 1..Len(outputs) :
            LET intermediate == IntermediateSpendOf(k).coin
                launcher == LauncherSpendOf(k).coin
                eve == EveSpendOf(k).coin
                conditions == outputs[k].parent_conditions
                Contains(c) == \E j \in 1..Len(conditions) : conditions[j] = c
                index_message ==
                    Sha256(Concat(Raw(usize_to_bytes(k - 1)),
                                  Raw(usize_to_bytes(Len(inputs)))))
                new_owner_hash ==
                    TreeHash(ListNode(<<Atom(params.did_id), Nil,
                                        Atom(params.did_inner_puzzle_hash)>>))
            IN  /\ Contains(ListNode(<<Opcode(51), Atom(intermediate.puzzle_hash),
                                        IntAtom(intermediate.amount)>>))
                /\ Contains(ListNode(<<Opcode(61),
                        Atom(Sha256(Concat(CoinId(intermediate), index_message)))>>))
                /\ Contains(ListNode(<<Opcode(63),
                        Atom(Sha256(Concat(eve.puzzle_hash,
                                           Concat(Raw(<<173, 76>>), new_owner_hash))))>>))
                /\ outputs[k].launcher_id = CoinId(launcher)

\* C10 witness: a batch of two items has been minted and the second item,
\* of index 1 and total 2, reports its launcher coin's id.
C10_Witness ==
    /\ pc = "done"
    /\ Len(outputs) = 2
    /\ Len(outputs[2].parent_conditions) >= 3
    /\ outputs[2].launcher_id = CoinId(LauncherSpendOf(2).coin)


\* mint_nfts and the single mints of the MintNft trait
NextLineage ==
    \/ MintStart \/ MintStep \/ MintError \/ MintFinish
    \/ MintEveNft \/ MintCustomStandardNft

SpecLineage == InitIdle /\ [][NextLineage]_vars

\* the proof an NFT spend carries in its singleton solution
SpendProof(spend) == ProofFromClvm(ListItems(Deserialize(spend.solution))[1])

\* C11: the eve spend of every item of mint_nfts and the NftInfo of
\* mint_eve_nft carry Proof::Eve with the launcher coin's parent id and
\* amount, so that the proof rebuilds the launcher coin's id, the eve coin's
\* parent; the NftInfo mint_custom_standard_nft returns carries
\* Proof::Lineage with the eve coin's parent id (the launcher id), the eve
\* coin's inner puzzle hash and the eve coin's amount, so that the proof
\* rebuilds the eve coin's id, the returned coin's parent.
C11_LineageWellFormed ==
    /\ pc = "done" =>
           \A k \in 1..Len(inputs) :
               LET launcher == LauncherSpendOf(k).coin
               IN  /\ SpendProof(EveSpendOf(k))
                          = Ok([kind |-> "Eve",
                                parent_coin_info |-> launcher.parent_coin_info,
                                amount |-> launcher.amount])
                   /\ EveSpendOf(k).coin.parent_coin_info = CoinId(launcher)
    /\ fq.fn \in {"mint_eve_nft", "mint_custom_standard_nft"} =>
           LET info == fq.eve.nft_info
           IN  /\ info.proof = [kind |-> "Eve",
                                parent_coin_info |-> fq.launcher_coin.parent_coin_info,
                                amount |-> fq.launcher_coin.amount]
               /\ info.coin.parent_coin_info
                      = CoinId(Coin(info.proof.parent_coin_info,
                                    SINGLETON_LAUNCHER_PUZZLE_HASH, info.proof.amount))
    /\ fq.fn = "mint_custom_standard_nft" =>
           LET info == fq.result.nft_info
               eve_coin == fq.eve.nft_info.coin
               eve_puzzle_hash ==
                   SingletonPuzzleHash(info.launcher_id, info.proof.inner_puzzle_hash)
           IN  /\ info.proof.kind = "Lineage"
               /\ info.proof.parent_coin_info = eve_coin.parent_coin_info
               /\ info.proof.parent_coin_info = info.launcher_id
               /\ info.proof.amount = eve_coin.amount
               /\ eve_coin.puzzle_hash = eve_puzzle_hash
               /\ info.coin.parent_coin_info
                      = CoinId(Coin(info.proof.parent_coin_info, eve_puzzle_hash,
                                    info.proof.amount))
               /\ SpendProof(fq.result.chained_spend.coin_spends[2])
                      = Ok(fq.eve.nft_info.proof)

\* C11 witness: mint_custom_standard_nft has spent an eve coin of amount 128
\* and returned an NftInfo with a lineage proof.
C11_Witness ==
    /\ fq.fn = "mint_custom_standard_nft"
    /\ fq.launcher_coin.amount = 128
    /\ fq.result.nft_info.proof.kind = "Lineage"
    /\ Len(fq.result.chained_spend.coin_spends) = 2


NextSelect ==
    \/ SelectCoins \/ SelectCoinsLarge \/ SelectCheck \/ SelectSort \/ SelectMatch
    \/ KnapsackCoin \/ KnapsackEnd

SpecSelect == InitIdle /\ [][NextSelect]_vars


\* the coins of the list given to select_coins are pairwise distinct
DistinctCoins ==
    \A i, j \in 1..Len(sel.spendable_coins) :
        sel.spendable_coins[i] = sel.spendable_coins[j] => i = j

SpendableTotal == SumAmounts(sel.spendable_coins, 1..Len(sel.spendable_coins))

\* C12: select_coins on an empty list returns NoSpendableCoins for every
\* amount, 0 included; on a non-empty list whose amounts sum to a total
\* below the requested amount it returns InsufficientBalance(total).
C12_ErrorOutcomes ==
    sel.pc = "returned" =>
        /\ sel.spendable_coins = <<>> => sel.result = Err(<<"NoSpendableCoins">>)
        /\ (sel.spendable_coins # <<>> /\ SpendableTotal < sel.amount) =>
               sel.result = Err(<<"InsufficientBalance", SpendableTotal>>)

\* C12 witness: a wallet of two coins of total 3 was asked for more.
C12_Witness ==
    /\ sel.pc = "returned"
    /\ Len(sel.spendable_coins) = 2
    /\ SpendableTotal = 3
    /\ sel.amount > 3
    /\ sel.result = Err(<<"InsufficientBalance", 3>>)

\* C13: for pairwise distinct spendable coins and any amount, a returned
\* Ok(set) is a non-empty subset of the spendable coins whose amounts sum to
\* at least the requested amount, whatever bits the generator yields.
C13_AmountSufficient ==
    (sel.pc = "returned" /\ sel.result[1] = "Ok" /\ DistinctCoins) =>
        /\ sel.result[2] # {}
        /\ sel.result[2] \subseteq
               {sel.spendable_coins[i] : i \in 1..Len(sel.spendable_coins)}
        /\ SetAmount(sel.result[2]) >= sel.amount

\* C13 witness: the knapsack returned its best coins, two distinct coins
\* summing to more than the amount.
C13_Witness ==
    /\ sel.pc = "returned"
    /\ DistinctCoins
    /\ sel.round = KnapsackRounds
    /\ sel.result[1] = "Ok"
    /\ Cardinality(sel.result[2]) = 2
    /\ SetAmount(sel.result[2]) > sel.amount

\* C14: a returned Ok(set) holds at most max_coins coins.
C14_AtMostMaxCoins ==
    (sel.pc = "returned" /\ sel.result[1] = "Ok") =>
        Cardinality(sel.result[2]) <= max_coins

\* C19: select_coins does not panic: the unwrap of smallest_coin_above
\* receives Some and no unreachable!() is executed.
C19_NoPanic ==
    /\ sel.pc # "none" => sel.result[1] # "panic"
    /\ (sel.pc # "none" /\ sel.unwrapped # NoValue) => sel.unwrapped[1] = "Some"

\* C19 witness: the smaller coin summed to less than the amount and the
\* unwrapped coin, the larger one, was returned.
C19_Witness ==
    /\ sel.pc = "returned"
    /\ sel.unwrapped # NoValue
    /\ Len(sel.spendable_coins) = 2
    /\ sel.result = Ok({sel.spendable_coins[1]})
    /\ sel.spendable_coins[2].amount < sel.amount
    /\ sel.amount < sel.spendable_coins[1].amount


NextSettle ==
    SettlementFinish \/ FinishInnerSpend \/ FinishSerialize \/ FinishError \/ FinishSpend

SpecSettle == InitIdle /\ [][NextSettle]_vars

\* C15: SettlementSpend::finish returns Ok having recorded, after the coin
\* spends the context held, exactly one CoinSpend of the given coin with the
\* settlement puzzle as reveal and a solution holding the notarized payments
\* in their order, or returns an error having recorded none; the coin spends
\* recorded before the call are unchanged in both cases.
C15_NoPartialSuccess ==
    sctx.pc = "returned" =>
        LET before == sctx.recorded_before
            after == sctx.coin_spends
        IN  \/ /\ sctx.result = Ok(<<>>)
               /\ Len(after) = Len(before) + 1
               /\ SubSeq(after, 1, Len(before)) = before
               /\ after[Len(after)].coin = sctx.coin
               /\ Deserialize(after[Len(after)].puzzle_reveal) = Prog("settlement_payments")
               /\ SettlementPaymentsFromClvm(Deserialize(after[Len(after)].solution))
                      = sctx.notarized_payments
            \/ /\ IsErr(sctx.result)
               /\ after = before

\* C15 witness: a context holding two coin spends has recorded a third, for
\* two different notarized payments.
C15_Witness ==
    /\ sctx.pc = "returned"
    /\ sctx.result = Ok(<<>>)
    /\ Len(sctx.recorded_before) = 2
    /\ Len(sctx.coin_spends) = 3
    /\ Len(sctx.notarized_payments) = 2
    /\ sctx.notarized_payments[1] # sctx.notarized_payments[2]


\* the mint number and mint total curried into an intermediate launcher
MintNumberOf(spend) ==
    CurriedFirst(CurriedRest(CurriedFromClvm(Deserialize(spend.puzzle_reveal))[3]))
MintTotalOf(spend) ==
    CurriedFirst(CurriedRest(CurriedRest(
        CurriedFromClvm(Deserialize(spend.puzzle_reveal))[3])))

\* C16: in mint_nfts over N inputs the item at position k (from 0) is given
\* mint index k and mint total N; the intermediate launcher coins and the
\* launcher ids reported in the outputs of one batch are pairwise distinct.
C16_DistinctPositions ==
    pc \in {"loop", "done"} =>
        /\ \A k \in 1..Len(outputs) :
               /\ MintNumberOf(IntermediateSpendOf(k)) = IntAtom(k - 1)
               /\ MintTotalOf(IntermediateSpendOf(k)) = IntAtom(Len(inputs))
        /\ \A j, k \in 1..Len(outputs) :
               j # k =>
                   /\ IntermediateSpendOf(j).coin # IntermediateSpendOf(k).coin
                   /\ CoinId(IntermediateSpendOf(j).coin)
                          # CoinId(IntermediateSpendOf(k).coin)
                   /\ outputs[j].launcher_id # outputs[k].launcher_id

\* C16 witness: a batch of two equal items has been minted.
C16_Witness ==
    /\ pc = "done"
    /\ Len(outputs) = 2
    /\ inputs[1] = inputs[2]
    /\ outputs[1].launcher_id # outputs[2].launcher_id


\* mint_nfts on small and bulk batches, and single calls of usize_to_bytes
NextIndexBytes ==
    \/ MintStart \/ MintStartBulk \/ MintStep \/ MintError \/ MintFinish
    \/ UsizeToBytes

SpecIndexBytes == InitIdle /\ [][NextIndexBytes]_vars

\* the bytes hashed into the index message of item k (from 1): the message
\* of the coin announcement the funding coin asserts for the item's
\* intermediate launcher
IndexMessageBytes(k) ==
    LET announcement_id == ConditionArg(outputs[k].parent_conditions[2])
        hashed == announcement_id[1][2]
        index_message == hashed[Len(hashed)]
    IN  RawBytes(index_message[2])

\* bytes are the minimal big-endian encoding of n
MinimalEncoding(bytes, n) ==
    /\ bytes = <<>> <=> n = 0
    /\ bytes # <<>> => bytes[1] # 0
    /\ BytesValue(bytes) = n

NextCalls == SpendNft \/ UsizeToBytes

SpecCalls == InitIdle /\ [][NextCalls]_vars

\* C18: spend_nft returns a CoinSpend of the given coin and puzzle reveal
\* whose solution is the singleton solution (proof amount inner) with the
\* given proof, amount equal to coin.amount and, as inner solution, the state
\* layer solution holding the ownership layer solution holding the standard
\* solution (() (q . conditions) ()).
C18_SpendNftSolution ==
    fq.fn = "spend_nft" =>
        LET spend == fq.coin_spend
            singleton == ListItems(Deserialize(spend.solution))
            state_layer == ListItems(singleton[3])
            ownership_layer == ListItems(state_layer[1])
            standard == ListItems(ownership_layer[1])
        IN  /\ spend.coin = fq.coin
            /\ spend.puzzle_reveal = fq.puzzle_reveal
            /\ Len(singleton) = 3
            /\ ProofFromClvm(singleton[1]) = Ok(fq.proof)
            /\ singleton[2] = IntAtom(fq.coin.amount)
            /\ IsU64Atom(singleton[2]) /\ U64Of(singleton[2]) = fq.coin.amount
            /\ Len(state_layer) = 1
            /\ Len(ownership_layer) = 1
            /\ standard = <<Nil, Pair(Atom(Raw(<<1>>)), fq.conditions), Nil>>

\* C18 witness: a coin of amount 128 was spent with a lineage proof of
\* another amount and two conditions.
C18_Witness ==
    /\ fq.fn = "spend_nft"
    /\ fq.coin.amount = 128
    /\ fq.proof.kind = "Lineage"
    /\ fq.proof.amount # fq.coin.amount
    /\ Len(ListItems(fq.conditions)) = 2
    /\ fq.coin_spend.coin = fq.coin


\* C20: the NftInfo mint_custom_standard_nft returns describes the coin the
\* eve spend creates: child of the eve coin, of the eve amount, at the puzzle
\* hash of the NFT puzzle whose owner is did_id, and its current_owner is
\* the owner committed in that puzzle hash.
C20_ReturnedInfoIsCreatedCoin ==
    fq.fn = "mint_custom_standard_nft" =>
        LET info == fq.result.nft_info
            eve_coin == fq.eve.nft_info.coin
        IN  /\ info.coin.parent_coin_info = CoinId(eve_coin)
            /\ info.coin.amount = eve_coin.amount
            /\ info.coin.puzzle_hash = fq.created.coin.puzzle_hash
            /\ info.current_owner = fq.created.current_owner

=============================================================================
